---- MODULE Spec2Model ----
(***************************************************************************)
(* Meal taxonomy classification core of reflux-tg-bot:                     *)
(*   app/services/taxonomy_index.py  (index, search, diversify, singleton) *)
(*   app/services/meal_taxonomy.py   (extract, link, persist, process_meal)*)
(*   app/db/session.py               (session = one transaction)           *)
(*   app/bot/handlers_flows.py       (meal_confirm_cb, fire-and-forget)    *)
(* Scores and confidences are integers in percent (0..100 = 0.0..1.0).     *)
(***************************************************************************)
EXTENDS Integers, Sequences, FiniteSets, TLC

----------------------------------------------------------------------------
(* Bounds of the model *)

\* number of process_meal calls made one after another in a behaviour
MaxRuns == 2
\* longest "items" array of an extraction response
MaxRawItems == 2
\* number of meal saves handled by the bot in a behaviour
MaxSaves == 2
\* number of get_taxonomy_index calls each thread makes
MaxIndexCalls == 2
\* number of nodes of a taxonomy graph drawn for _compute_levels
MaxNodes == 4
\* longest stored "parents" list of a drawn node
MaxParents == 2
\* most entries of a drawn "name" mapping
MaxLabels == 2
\* largest limit passed to search and to diversify_by_level
MaxLimit == 3
\* longest candidate list passed to diversify_by_level
MaxCands == 3
\* largest max_per_level passed to diversify_by_level
MaxCap == 2
\* largest max_retries of an OpenAIChat
MaxRetries == 2
\* POST /auth/code-login requests
MaxRequests == 2
\* login codes created
MaxCodes == 2
\* latest reading of the clock
MaxClock == 2

(* Program constants *)

\* link_item_top3(candidate_limit=30)
candidate_limit == 30
\* diversify_by_level(max_per_level=6) as passed by link_item_top3
max_per_level == 6
\* raw_top[:3] and r.top3[:3]
TopN == 3
\* cand.parent_ids[:3] is only used for display; not modelled

----------------------------------------------------------------------------
(* Generic helpers *)

\* Python's None / JSON null
Null == "<null>"
\* a JSON value that is not a string (a number, a list, ...) where the code
\* expects a string
NonStr == "<non-str>"

Range(s) == {s[i] : i \in 1..Len(s)}

Min2(a, b) == IF a < b THEN a ELSE b
Max2(a, b) == IF a > b THEN a ELSE b

\* s[:n] of Python for n >= 0
Take(s, n) == SubSeq(s, 1, Min2(Len(s), Max2(n, 0)))

\* the sort keys of candidate lists: by score, by (score, level) and by
\* (score, -level)
SortKey(c, order) ==
    CASE order = "score"         -> c.score
      [] order = "score_level"   -> c.score * 1000 + c.level
      [] order = "score_broader" -> c.score * 1000 + (999 - c.level)

\* Python's sorted(s, key=..., reverse=True): descending and stable
\* (equal keys keep their original relative order).
SortDescBy(s, order) ==
    LET n == Len(s)
        rank(i) == 1 + Cardinality({j \in 1..n :
                        \/ SortKey(s[j], order) > SortKey(s[i], order)
                        \/ (SortKey(s[j], order) = SortKey(s[i], order) /\ j < i)})
    IN  [p \in 1..n |-> s[CHOOSE i \in 1..n : rank(i) = p]]

\* sorted(s) ascending for a list of distinct integers
SortAsc(S) ==
    LET n == Cardinality(S)
    IN  [p \in 1..n |-> CHOOSE x \in S : Cardinality({y \in S : y < x}) = p - 1]

\* str.strip() on the strings of the model
Strip(s) ==
    CASE s = " "      -> ""
      [] s = "  "     -> ""
      [] s = " soup " -> "soup"
      [] s = " ab2 "  -> "ab2"
      [] OTHER        -> s

\* str.lower() on the strings of the model
Lower(s) ==
    CASE s = "Soup"  -> "soup"
      [] s = "Dish"  -> "dish"
      [] OTHER       -> s

\* str.upper() on the strings of the model
Upper(s) ==
    CASE s = "ab2" -> "AB2"
      [] s = "cd3" -> "CD3"
      [] OTHER     -> s

----------------------------------------------------------------------------
(* The taxonomy definition source (categories.json) of the model.           *)
(* "en:teas" names a parent that is not a node and an empty parent string.  *)

\* key order of the loaded dict
TaxOrder == <<"en:food", "en:soups", "en:teas">>
TaxIds == Range(TaxOrder)

\* payload["name"] as the list of its (lang, label) items, in dict order
TaxName(cid) ==
    CASE cid = "en:food"  -> << <<"en", "food">> >>
      [] cid = "en:soups" -> << <<"ru", "supy">>, <<"en", "soups">> >>
      [] cid = "en:teas"  -> << <<"en", "teas">> >>
      [] OTHER            -> << >>

\* payload["parents"] as stored
TaxParents(cid) ==
    CASE cid = "en:soups" -> <<"en:food">>
      [] cid = "en:teas"  -> <<"", "en:beverages">>
      [] OTHER            -> << >>

\* lexicographic order of the label strings of the model (for sorted())
LexOrder ==
    <<"food", "kefir", "milk", "molho", "salsa", "sauce", "saus", "soep", "sopa", "soppa",
      "sos", "sosse", "soup", "soupe", "soups", "sous", "sugo", "sup", "suppe", "supy",
      "teas", "zupa", "zuppa">>

\* cid.split(":", 1)[1].replace("-", " ").strip()
IdSuffix(cid) ==
    CASE cid = "en:food"  -> "food"
      [] cid = "en:soups" -> "soups"
      [] cid = "en:teas"  -> "teas"
      [] cid = "en:sauce" -> "sauce"
      [] cid = "en:milk"  -> "milk"
      [] cid = "en:kefir" -> "kefir"
      [] OTHER            -> ""

\* rapidfuzz fuzz.WRatio(q, text), truncated to int: the library is external,
\* its scores for the strings of the model are tabulated.  For two single
\* words whose lengths differ by less than half, WRatio is the normalized
\* Indel similarity 200 * lcs / (len(q) + len(text)).
WRatio(q, text) ==
    CASE q = "soup" /\ text = "soup" -> 100
      [] q = "soup" /\ text \in {"soups", "soupe"} -> 88
      [] q = "soup" /\ text = "sup" -> 85
      [] q = "soup" /\ text \in {"supy", "soep", "sopa", "sous"} -> 75
      [] q = "soup" /\ text \in {"soppa", "suppe"} -> 66
      [] q = "soup" /\ text = "sos" -> 57
      [] q = "soup" /\ text \in {"saus", "sugo", "zupa"} -> 50
      [] q = "soup" /\ text \in {"sauce", "sosse", "zuppa"} -> 44
      [] q = "soup" /\ text \in {"food", "teas"} -> 25
      [] q = "soup" /\ text \in {"molho", "salsa"} -> 22
      [] q = "soup" /\ text \in {"milk", "kefir"} -> 0
      [] q = "tea"  /\ text = "teas"  -> 85
      [] q = "tea"  /\ text \in {"soups", "supy", "food"} -> 0
      [] q = "milk" /\ text \in {"soups", "supy", "food", "teas"} -> 0
      [] OTHER -> 0

\* the loaded dict: its keys in order and the payload of every key
Tax ==
    [order |-> TaxOrder,
     payload |-> [cid \in TaxIds |->
                    [is_dict |-> TRUE, name_is_dict |-> TRUE, name |-> TaxName(cid),
                     parents_is_list |-> TRUE, parents |-> TaxParents(cid)]]]

----------------------------------------------------------------------------
(* taxonomy_index.py *)

\* self._tax.get(cid): None for an id that is not a key
NoPayload == [is_dict |-> FALSE, name_is_dict |-> FALSE, name |-> << >>,
              parents_is_list |-> FALSE, parents |-> << >>]
Payload(tax, cid) == IF cid \in Range(tax.order) THEN tax.payload[cid] ELSE NoPayload

\* the stored list as it is, when it is a list
_iter_parents_Unfiltered(payload) ==
    IF ~payload.is_dict \/ ~payload.parents_is_list THEN << >> ELSE payload.parents

\* _iter_parents: the stored parents that are non-empty strings
_iter_parents(payload) ==
    IF ~payload.is_dict \/ ~payload.parents_is_list THEN << >>
    ELSE SelectSeq(payload.parents, LAMBDA p : p \notin {"", NonStr})

\* without the English fallback of lines 65-67
_label_for_NoEnglish(payload, prefer_lang) ==
    IF ~payload.is_dict \/ ~payload.name_is_dict THEN ""
    ELSE LET name == payload.name
             IsLabel(v) == v # NonStr /\ Strip(v) # ""
             In(lang) == {i \in 1..Len(name) : name[i][1] = lang /\ IsLabel(name[i][2])}
             anyLab == {i \in 1..Len(name) : IsLabel(name[i][2])}
             first(S) == Strip(name[CHOOSE i \in S : \A j \in S : i <= j][2])
         IN  IF prefer_lang \notin {Null, ""} /\ In(prefer_lang) # {} THEN first(In(prefer_lang))
             ELSE IF anyLab # {} THEN first(anyLab)
             ELSE ""

\* _label_for: prefer_lang, else "en", else any label, else ""
_label_for(payload, prefer_lang) ==
    IF ~payload.is_dict \/ ~payload.name_is_dict THEN ""
    ELSE LET name == payload.name
             IsLabel(v) == v # NonStr /\ Strip(v) # ""
             In(lang) == {i \in 1..Len(name) : name[i][1] = lang /\ IsLabel(name[i][2])}
             anyLab == {i \in 1..Len(name) : IsLabel(name[i][2])}
             first(S) == Strip(name[CHOOSE i \in S : \A j \in S : i <= j][2])
         IN  IF prefer_lang \notin {Null, ""} /\ In(prefer_lang) # {} THEN first(In(prefer_lang))
             ELSE IF In("en") # {} THEN first(In("en"))
             ELSE IF anyLab # {} THEN first(anyLab)
             ELSE ""

\* parent_map of _compute_levels: only parents that are nodes
ParentMap(tax, n) == {p \in Range(_iter_parents(tax.payload[n])) : p \in Range(tax.order)}
Roots(tax) == {n \in Range(tax.order) : ParentMap(tax, n) = {}}

\* the breadth-first relaxation of _compute_levels, layer by layer
RECURSIVE BfsLevels(_, _, _, _)
BfsLevels(tax, level, frontier, d) ==
    IF frontier = {} THEN level
    ELSE LET next == {v \in Range(tax.order) \ DOMAIN level :
                         \E u \in frontier : u \in ParentMap(tax, v)}
         IN  BfsLevels(tax, level @@ [v \in next |-> d + 1], next, d + 1)

\* _compute_levels: unreached nodes get level 0
_compute_levels(tax) ==
    LET l == BfsLevels(tax, [r \in Roots(tax) |-> 0], Roots(tax), 0)
    IN  [n \in Range(tax.order) |-> IF n \in DOMAIN l THEN l[n] ELSE 0]

\* TaxonomyIndex.__init__: the (text, category id) choices, node by node,
\* each node's distinct names in sorted order, at most 10 of them
NodeNames(tax, cid) ==
    LET name == IF tax.payload[cid].is_dict /\ tax.payload[cid].name_is_dict
                THEN tax.payload[cid].name ELSE << >>
    IN  {Strip(name[i][2]) : i \in {j \in 1..Len(name) : name[j][2] # NonStr}}
            \cup {IdSuffix(cid)}
NodeChoices(tax, cid) ==
    LET uniq == SelectSeq(LexOrder, LAMBDA nm : nm \in NodeNames(tax, cid) /\ nm # "")
    IN  [i \in 1..Len(Take(uniq, 10)) |-> [text |-> uniq[i], cid |-> cid]]
RECURSIVE ChoicesFrom(_, _)
ChoicesFrom(tax, i) ==
    IF i > Len(tax.order) THEN << >>
    ELSE NodeChoices(tax, tax.order[i]) \o ChoicesFrom(tax, i + 1)

\* TaxonomyIndex(): _tax, _levels and the choice lists
TaxonomyIndex(tax) ==
    [tax |-> tax, levels |-> _compute_levels(tax), choices |-> ChoicesFrom(tax, 1)]

\* the index of the definition source of the model
Index == TaxonomyIndex(Tax)

\* TaxonomyIndex.get_level / get_label / get_parent_ids
get_level(idx, cid) == IF cid \in DOMAIN idx.levels THEN idx.levels[cid] ELSE 0
get_label(idx, cid, prefer_lang) ==
    IF _label_for(Payload(idx.tax, cid), prefer_lang) # ""
    THEN _label_for(Payload(idx.tax, cid), prefer_lang)
    ELSE cid
get_parent_ids(idx, cid) == _iter_parents(Payload(idx.tax, cid))

\* first occurrence of every category id of a list of records, in list order
FirstPerId(s) == SelectSeq([i \in 1..Len(s) |-> [s[i] EXCEPT !.first =
                     \A j \in 1..(i - 1) : s[j].category_id # s[i].category_id]],
                     LAMBDA c : c.first)

\* TaxonomyIndex.search
search(idx, query, limit) ==
    LET q == Strip(query)
        scored == [i \in 1..Len(idx.choices) |->
                      [category_id |-> idx.choices[i].cid,
                       score |-> WRatio(q, idx.choices[i].text),
                       level |-> get_level(idx, idx.choices[i].cid),
                       first |-> TRUE]]
        \* process.extract: best first, limit max(limit * 6, limit)
        raw == Take(SortDescBy(scored, "score"), Max2(limit * 6, limit))
        \* raw is in descending score order, so the first entry of a category
        \* is the one the "score > prev" test keeps
        best == FirstPerId(raw)
        out == SortDescBy(best, "score_level")
    IN  IF q = "" THEN << >>
        ELSE [i \in 1..Len(Take(out, limit)) |->
                 [category_id |-> out[i].category_id, score |-> out[i].score,
                  level |-> out[i].level]]

\* the top candidate is not set aside
Forced_None(sorted_all, always_include_best) == << >>

\* lines 222-226: the top candidate of sorted_all, when asked for
Forced(sorted_all, always_include_best) ==
    IF always_include_best /\ sorted_all # << >> THEN <<sorted_all[1]>> ELSE << >>

\* the levels always in ascending order
LevelOrder_Ascending(lvls, prefer_broader) == SortAsc(lvls)

\* line 238: sorted(by_level.keys(), reverse=not prefer_broader)
LevelOrder(lvls, prefer_broader) ==
    LET asc == SortAsc(lvls)
    IN  IF prefer_broader THEN asc ELSE [i \in 1..Len(asc) |-> asc[Len(asc) + 1 - i]]

\* lines 221-243: the locals before the selection loop
\* [levels, picked, pools (by_level), counts (picked_per_level), progressed]
DiversifySetup(candidates, prefer_broader, always_include_best) ==
    LET sorted_all == SortDescBy(candidates, "score_broader")
        forced == Forced(sorted_all, always_include_best)
        forced_ids == {forced[i].category_id : i \in 1..Len(forced)}
        rest == SelectSeq(sorted_all, LAMBDA c : c.category_id \notin forced_ids)
        lvls == {rest[i].level : i \in 1..Len(rest)}
    IN  [levels |-> LevelOrder(lvls, prefer_broader),
         picked |-> forced,
         pools |-> [l \in lvls |-> SortDescBy(SelectSeq(rest, LAMBDA c : c.level = l), "score")],
         counts |-> [l \in lvls |-> 0],
         progressed |-> TRUE]

\* a level that is capped or exhausted counts as progress too
ForLevel_AlwaysProgress(st, lvl, maxPerLevel) ==
    IF st.counts[lvl] >= maxPerLevel \/ st.pools[lvl] = << >>
    THEN [st EXCEPT !.progressed = TRUE]
    ELSE [st EXCEPT !.picked = Append(@, Head(st.pools[lvl])),
                    !.pools[lvl] = Tail(@),
                    !.counts[lvl] = @ + 1,
                    !.progressed = TRUE]

\* lines 249-256: the body of "for lvl in levels" after the limit test
ForLevel(st, lvl, maxPerLevel) ==
    IF st.counts[lvl] >= maxPerLevel \/ st.pools[lvl] = << >> THEN st
    ELSE [st EXCEPT !.picked = Append(@, Head(st.pools[lvl])),
                    !.pools[lvl] = Tail(@),
                    !.counts[lvl] = @ + 1,
                    !.progressed = TRUE]

\* One pass of the round robin of diversify_by_level over levels[i..]
RECURSIVE DiversifyPass(_, _, _, _)
DiversifyPass(i, st, limit, maxPerLevel) ==
    IF i > Len(st.levels) \/ Len(st.picked) >= limit THEN st
    ELSE DiversifyPass(i + 1, ForLevel(st, st.levels[i], maxPerLevel), limit, maxPerLevel)

\* while progressed and len(picked) < limit
RECURSIVE DiversifyLoop(_, _, _)
DiversifyLoop(st, limit, maxPerLevel) ==
    IF ~st.progressed \/ Len(st.picked) >= limit THEN st.picked
    ELSE DiversifyLoop(DiversifyPass(1, [st EXCEPT !.progressed = FALSE], limit, maxPerLevel),
                       limit, maxPerLevel)

\* TaxonomyIndex.diversify_by_level
diversify_by_level(candidates, limit, maxPerLevel, prefer_broader, always_include_best) ==
    IF limit <= 0 \/ candidates = << >> THEN << >>
    ELSE Take(DiversifyLoop(DiversifySetup(candidates, prefer_broader, always_include_best),
                            limit, maxPerLevel),
              limit)

----------------------------------------------------------------------------
(* meal_taxonomy.py: candidate generation of link_item_top3 *)

\* max(0, int(round(score * 0.85))): round half to even on 17 * score / 20
DecayedScore(score) ==
    LET n == 17 * score
        q == n \div 20
        r == n % 20
    IN  Max2(0, IF r < 10 THEN q
                ELSE IF r > 10 THEN q + 1
                ELSE IF q % 2 = 0 THEN q ELSE q + 1)

\* uniq_queries: the stripped, non-empty, distinct names of the item
UniqQueries(item) ==
    LET queries == IF item.normalized_en \notin {Null, ""} THEN <<item.normalized, item.normalized_en>>
                   ELSE <<item.normalized>>
        stripped == [i \in 1..Len(queries) |-> Strip(queries[i])]
        keep == {i \in 1..Len(stripped) :
                    /\ stripped[i] # ""
                    /\ \A j \in 1..(i - 1) : stripped[j] # stripped[i]}
    IN  [p \in 1..Cardinality(keep) |->
            stripped[CHOOSE i \in keep : Cardinality({j \in keep : j < i}) = p - 1]]

\* the merge "best" over the queries: per category id the first entry with the
\* maximum score, in order of first insertion
RECURSIVE SearchAll(_, _, _, _)
SearchAll(idx, qs, i, limit) ==
    IF i > Len(qs) THEN << >> ELSE search(idx, qs[i], limit) \o SearchAll(idx, qs, i + 1, limit)
MergeBest(found) ==
    LET maxOf(cid) == CHOOSE c \in Range(found) :
                         /\ c.category_id = cid
                         /\ \A d \in Range(found) : d.category_id = cid => d.score <= c.score
        firsts == SelectSeq([i \in 1..Len(found) |-> [cand |-> found[i], first |->
                                \A j \in 1..(i - 1) : found[j].category_id # found[i].category_id]],
                            LAMBDA e : e.first)
    IN  [i \in 1..Len(firsts) |->
            [firsts[i].cand EXCEPT !.score = maxOf(firsts[i].cand.category_id).score]]

\* lines 227-251: the merged search results in rank order and their
\* diversified selection
CandidatesRaw(idx, item, limit) ==
    CHOOSE raw \in
        {SortDescBy(best, "score_level") :
         best \in {MergeBest(found) :
                   found \in {SearchAll(idx, qs, 1, limit) : qs \in {UniqQueries(item)}}}} :
        TRUE
FirstCandidates(idx, item, limit) ==
    CHOOSE out \in
        {diversify_by_level(raw, limit, max_per_level, TRUE, TRUE) :
         raw \in {CandidatesRaw(idx, item, limit)}} :
        TRUE

\* the parents of a popped id are not pushed
WalkPop_ParentsOnly(idx, c, w) ==
    LET pid == w.stack[Len(w.stack)]
        rest == SubSeq(w.stack, 1, Len(w.stack) - 1)
    IN  IF pid \in w.seen THEN [w EXCEPT !.stack = rest]
        ELSE IF pid = "" THEN [w EXCEPT !.stack = rest, !.seen = @ \cup {pid}]
        ELSE [stack |-> rest,
              seen |-> w.seen \cup {pid},
              expanded |->
                  IF \E e \in Range(w.expanded) : e.category_id = pid THEN w.expanded
                  ELSE Append(w.expanded,
                           [category_id |-> pid, score |-> DecayedScore(c.score),
                            level |-> get_level(idx, pid)])]

\* lines 265-284: one turn of "while stack" for the candidate c;
\* w = [stack, seen, expanded]
WalkPop(idx, c, w) ==
    LET pid == w.stack[Len(w.stack)]
        rest == SubSeq(w.stack, 1, Len(w.stack) - 1)
    IN  IF pid \in w.seen THEN [w EXCEPT !.stack = rest]
        ELSE IF pid = "" THEN [w EXCEPT !.stack = rest, !.seen = @ \cup {pid}]
        ELSE [stack |-> rest \o get_parent_ids(idx, pid),
              seen |-> w.seen \cup {pid},
              expanded |->
                  IF \E e \in Range(w.expanded) : e.category_id = pid THEN w.expanded
                  ELSE Append(w.expanded,
                           [category_id |-> pid, score |-> DecayedScore(c.score),
                            level |-> get_level(idx, pid)])]

\* the walk up the parent chain from one candidate c (stack, seen set):
\* returns the expanded list with the parents added
RECURSIVE WalkParents(_, _, _)
WalkParents(idx, c, w) ==
    IF w.stack = << >> THEN w.expanded ELSE WalkParents(idx, c, WalkPop(idx, c, w))

RECURSIVE ExpandFrom(_, _, _, _)
ExpandFrom(idx, candidates, i, expanded) ==
    IF i > Len(candidates) THEN expanded
    ELSE ExpandFrom(idx, candidates, i + 1,
             WalkParents(idx, candidates[i],
                         [stack |-> get_parent_ids(idx, candidates[i].category_id),
                          seen |-> {}, expanded |-> expanded]))

\* lines 286-294: the expanded candidates in rank order, diversified again
Presented(expanded, limit) ==
    CHOOSE out \in
        {diversify_by_level(expanded_list, limit, max_per_level, TRUE, TRUE) :
         expanded_list \in {SortDescBy(expanded, "score_broader")}} :
        TRUE

\* lines 227-294: the candidate list presented to the reranker for an item.
\* Every stage is bound to its value before the next one uses it.
LinkCandidatesOf(idx, item, limit) ==
    CHOOSE out \in
        {Presented(expanded, limit) :
         expanded \in {ExpandFrom(idx, candidates, 1, candidates) :
                       candidates \in {FirstCandidates(idx, item, limit)}}} :
        TRUE

\* link_item_top3 as process_meal calls it: the process-wide index and the
\* default candidate_limit
LinkCandidates(item) == LinkCandidatesOf(Index, item, candidate_limit)

CandidateIds(cands) == {cands[i].category_id : i \in 1..Len(cands)}

----------------------------------------------------------------------------
(* meal_taxonomy.py: validation of the two inference-service responses *)

ItemTypes == {"dish", "ingredient", "drink", "product"}

\* A JSON number is <<n>> (n in percent); a value float() rejects (missing,
\* null, a non-numeric string, NaN) is << >>.
Invalid == << >>
Num(n) == <<n>>

\* _clamp01 in percent
_clamp01(x, default) ==
    IF x = Invalid THEN default ELSE Max2(0, Min2(100, x[1]))

\* lines 167-175: the fields of one entry after coercion
EntryType(it) == Lower(Strip(IF it.type = Null THEN "" ELSE it.type))
EntrySpan(it) == Strip(IF it.text_span = Null THEN "" ELSE it.text_span)
EntryNorm(it) == Strip(IF it.normalized_ru = Null THEN "" ELSE it.normalized_ru)
EntryNormEn(it) ==
    LET v == IF it.normalized_en \in {Null, NonStr} THEN "" ELSE Strip(it.normalized_en)
    IN  IF v = "" THEN Null ELSE v

\* lines 165-177: the entry survives validation
EntryValid(it) ==
    /\ it.is_dict
    /\ EntryType(it) \in ItemTypes
    /\ ~(EntryNorm(it) = "" /\ EntrySpan(it) = "")

\* lines 178-187
MakeItem(it) ==
    [item_type |-> EntryType(it),
     text_span |-> EntrySpan(it),
     normalized |-> IF EntryNorm(it) # "" THEN EntryNorm(it) ELSE EntrySpan(it),
     normalized_en |-> EntryNormEn(it),
     confidence |-> _clamp01(it.confidence, 50)]

\* line 167: (it.get("type") or "").strip() on a truthy non-string raises
TypeRaises(raw_items) ==
    \E i \in 1..Len(raw_items) : raw_items[i].is_dict /\ raw_items[i].type = NonStr

ItemKey(item) == <<item.item_type, Lower(Strip(item.normalized))>>

\* a key keeps its first entry, whatever the confidences
Dedup_KeepFirst(items) ==
    SelectSeq([i \in 1..Len(items) |->
                  [items[i] EXCEPT !.item_type =
                      IF \A j \in 1..(i - 1) : ItemKey(items[j]) # ItemKey(items[i])
                      THEN @ ELSE Null]],
              LAMBDA it : it.item_type # Null)

\* lines 189-197: dict keyed by (type, lowered name): a key keeps the place of
\* its first entry and the first entry of the highest confidence
Dedup(items) ==
    LET n == Len(items)
        isFirst(i) == \A j \in 1..(i - 1) : ItemKey(items[j]) # ItemKey(items[i])
        winner(i) == CHOOSE k \in 1..n :
                        /\ ItemKey(items[k]) = ItemKey(items[i])
                        /\ \A j \in 1..n : ItemKey(items[j]) = ItemKey(items[i]) =>
                              \/ items[j].confidence < items[k].confidence
                              \/ (items[j].confidence = items[k].confidence /\ k <= j)
        firsts == {i \in 1..n : isFirst(i)}
    IN  [p \in 1..Cardinality(firsts) |->
            items[winner(CHOOSE i \in firsts : Cardinality({j \in firsts : j < i}) = p - 1)]]

\* extract_items, lines 159-197, on the "items" value of the response object
ExtractItems(raw_items) ==
    LET valid == SelectSeq(raw_items, EntryValid)
    IN  Dedup([i \in 1..Len(valid) |-> MakeItem(valid[i])])

\* lines 401-406: which top_k entry becomes a LinkedCategory
AcceptTopEntry(e, candidates) ==
    /\ e.is_dict
    /\ Strip(IF e.id = Null THEN "" ELSE e.id) # ""

\* lines 394-415: top3 built from the rerank response
ParseTop3(obj, candidates, lang) ==
    LET kept == SelectSeq(Take(obj.top_k, TopN), LAMBDA e : AcceptTopEntry(e, candidates))
    IN  [i \in 1..Len(kept) |->
            [category_id |-> Strip(kept[i].id),
             label |-> get_label(Index, Strip(kept[i].id), lang),
             score |-> _clamp01(kept[i].score, 0),
             level |-> get_level(Index, Strip(kept[i].id))]]

\* lines 395-397
ParseAbstainReason(obj) ==
    IF obj.abstain_reason # Null /\ Strip(obj.abstain_reason) # "" THEN obj.abstain_reason
    ELSE Null

\* lines 417-425
MakeLinkResult(item, obj, candidates, lang) ==
    [item |-> item,
     top3 |-> ParseTop3(obj, candidates, lang),
     abstain |-> obj.abstain,
     abstain_reason |-> ParseAbstainReason(obj)]

----------------------------------------------------------------------------
(* Inputs of the model *)

Slots == {1, 2}
\* the meal process_meal is called for, and a meal classified earlier whose
\* rows are in the tables from the start
Meals == {"m1"}
EarlierMeal == "m0"
NotesTexts == {"", "  ", "soup and tea"}
ApiKeys == {Null, "", "sk-test"}
Lang == "en"

\* entries an extraction response may carry
RawSoup == [is_dict |-> TRUE, type |-> "dish", text_span |-> "soup",
            normalized_ru |-> "soup", normalized_en |-> "soup", confidence |-> Num(90)]
RawTea == [is_dict |-> TRUE, type |-> "drink", text_span |-> "tea",
           normalized_ru |-> Null, normalized_en |-> "tea", confidence |-> Invalid]
RawMilk == [is_dict |-> TRUE, type |-> "drink", text_span |-> "milk",
            normalized_ru |-> Null, normalized_en |-> "milk", confidence |-> Num(80)]
RawSnack == [is_dict |-> TRUE, type |-> "snack", text_span |-> "chips",
             normalized_ru |-> "chips", normalized_en |-> Null, confidence |-> Num(70)]
RawBadType == [is_dict |-> TRUE, type |-> NonStr, text_span |-> "soup",
               normalized_ru |-> "soup", normalized_en |-> Null, confidence |-> Num(70)]
RawEntries == {RawSoup, RawTea, RawSnack, RawBadType}

RECURSIVE SeqsUpTo(_, _)
SeqsUpTo(S, n) ==
    IF n = 0 THEN {<< >>}
    ELSE LET shorter == SeqsUpTo(S, n - 1)
         IN  shorter \cup {Append(s, x) : s \in {t \in shorter : Len(t) = n - 1}, x \in S}

\* what chat_json hands to extract_items: an error, a JSON array, or a JSON
\* object with its "items"
ExtractOutcomes ==
    {[kind |-> "error", error |-> e, items |-> << >>] :
        e \in {"OpenAI request failed: contract", "OpenAI request failed: transport"}}
    \cup {[kind |-> "array", error |-> "", items |-> << >>]}
    \cup {[kind |-> "object", error |-> "", items |-> its] :
            its \in SeqsUpTo(RawEntries, MaxRawItems)}

TopEntry(id, score) == [is_dict |-> TRUE, id |-> id, score |-> score]
NotAnObject == [is_dict |-> FALSE, id |-> Null, score |-> Invalid]

\* rerank response objects: a presented id, an id that was not presented, and
\* an abstention that still carries a top_k
RerankObjects ==
    { [top_k |-> <<TopEntry("en:soups", Num(90))>>, abstain |-> FALSE, abstain_reason |-> Null],
      [top_k |-> <<TopEntry("en:pizzas", Num(80))>>, abstain |-> FALSE, abstain_reason |-> Null],
      [top_k |-> <<TopEntry("en:teas", Num(150))>>, abstain |-> TRUE,
       abstain_reason |-> "no match"] }

RerankOutcomes ==
    {[kind |-> "error", error |-> e] :
        e \in {"OpenAI request failed: contract", "OpenAI request failed: transport"}}
    \cup {[kind |-> "array", error |-> ""]}
    \cup {[kind |-> "object", error |-> "", obj |-> o] : o \in RerankObjects}

----------------------------------------------------------------------------
(* State *)

VARIABLES
    run,        \* per process_meal call in progress: its arguments and locals
    db_items,   \* committed rows of table meal_items
    db_cats,    \* committed rows of table meal_item_categories
    audit,      \* committed rows of table events_audit, in insertion order
    calls,      \* number of process_meal calls made so far
    is_sqlite,  \* init_db: sqlite file (TRUE) or hosted Postgres (FALSE)
    \* the bot (handlers_flows.py, meal_confirm_cb)
    handler,    \* the meal_confirm_cb coroutine: position and locals
    draft,      \* context.user_data[draft key of the meal flow]
    saved_meals, \* rows of table meals written by create_meal
    tasks,      \* the _run_and_notify task of every save
    loop,       \* the coroutine that occupies the event loop thread, if any
    chat,       \* messages the bot has sent, in order
    conv,       \* state of the meal conversation
    returns,    \* what meal_confirm_cb returned for every save
    \* taxonomy_index.py, get_taxonomy_index
    cache,      \* the lru_cache of get_taxonomy_index: the object it holds, if any
    built,      \* number of TaxonomyIndex objects constructed
    thr,        \* per thread: position in get_taxonomy_index and its object
    handles,    \* the index objects returned to callers so far
    \* one call of a function of taxonomy_index.py or meal_taxonomy.py
    fcall,      \* the function called and its arguments
    flocals,    \* its local variables while it runs
    fresult,    \* what it returned
    \* the dashboard login (main.py do_POST, dashboard_codes.py)
    login_codes, \* committed rows of table login_codes
    reqs,       \* the POST requests: position of their handler and its locals
    clock       \* datetime.utcnow()

pipeVars == <<run, db_items, db_cats, audit, calls, is_sqlite>>
botVars == <<handler, draft, saved_meals, tasks, loop, chat, conv, returns>>
idxVars == <<cache, built, thr, handles>>
pureVars == <<fcall, flocals, fresult>>
webVars == <<login_codes, reqs, clock>>
vars == <<run, db_items, db_cats, audit, calls, is_sqlite,
          handler, draft, saved_meals, tasks, loop, chat, conv, returns,
          cache, built, thr, handles, fcall, flocals, fresult,
          login_codes, reqs, clock>>

SaveIds == 1..MaxSaves
NoDraft == [present |-> FALSE, notes_text |-> ""]
NoTask == [pc |-> "none", results |-> "none", chat_id |-> FALSE, notes_text |-> "",
           openai_api_key |-> Null]
\* who runs on the event loop thread
LoopFree == [by |-> "free", task |-> 0]
ByHandler == [by |-> "handler", task |-> 0]
ByTask(t) == [by |-> "task", task |-> t]
NoReturn == [state |-> "", draft_cleared |-> FALSE]
IdleHandler == [pc |-> "idle", save |-> 0, cb |-> "", has_message |-> FALSE,
                openai_api_key |-> Null]
StoredIds == {m.id : m \in saved_meals}
DraftNotes == {"", "soup and tea"}
CallbackValues == {"save", "edit"}
ClassifyOutcomes == {"items", "empty", "raised"}

\* the bot after start-up, bot_data["openai_api_key"] = key
BotStart(key) ==
    /\ handler = [IdleHandler EXCEPT !.openai_api_key = key]
    /\ draft = NoDraft
    /\ saved_meals = {}
    /\ tasks = [t \in SaveIds |-> NoTask]
    /\ loop = LoopFree
    /\ chat = << >>
    /\ conv = "END"
    /\ returns = [t \in SaveIds |-> NoReturn]

BotIdle == BotStart(Null)

ReqIds == 1..MaxRequests
NoRequest == [pc |-> "none", raw |-> "", normalized |-> "", now |-> 0, row |-> "",
              user_id |-> Null, status |-> 0]
\* no login code, no request
WebIdle ==
    /\ login_codes = {}
    /\ reqs = [q \in ReqIds |-> NoRequest]
    /\ clock = 0

IndexThreads == {1, 2, 3}
IdleThread == [pc |-> "idle", obj |-> 0, ncalls |-> 0]
\* no function call under way
NoCall ==
    /\ fcall = [fn |-> "none"]
    /\ flocals = [pc |-> "none"]
    /\ fresult = [fn |-> "none"]

IndexEmpty ==
    /\ cache = {}
    /\ built = 0
    /\ thr = [t \in IndexThreads |-> IdleThread]
    /\ handles = {}


\* the session of persist_results: what it read, the rows it deleted and
\* added but has not committed, the sqlite write lock, the transactions whose
\* row locks its last statement waits for
NoTx == [open |-> FALSE, sel |-> {}, delI |-> {}, delC |-> {}, insI |-> {}, insC |-> {},
         lock |-> FALSE, wait |-> {}]

NoSnapshot == [items |-> {}, cats |-> {}]

IdleRun == [pc |-> "idle", call_no |-> 0, meal_id |-> "", notes_text |-> "",
            api_key |-> Null, items |-> << >>, results |-> << >>, presented |-> << >>,
            chat_calls |-> 0, ret |-> << >>, error |-> "", before |-> NoSnapshot,
            tx |-> NoTx]

\* rows of a meal
ItemsOfMeal(items, meal) == {i \in items : i.meal_id = meal}
CatsOfMeal(items, cats, meal) ==
    {c \in cats : \E i \in ItemsOfMeal(items, meal) : i.id = c.meal_item_id}

\* MealItem.id / primary keys are fresh uuids: the i-th row of call n
RowId(call_no, i) == call_no * 10 + i

\* lines 451-470: the MealItem row of result i
ItemRow(call_no, meal, results, i) ==
    [id |-> RowId(call_no, i), meal_id |-> meal,
     item_type |-> results[i].item.item_type,
     text_span |-> results[i].item.text_span,
     normalized |-> results[i].item.normalized,
     normalized_en |-> results[i].item.normalized_en,
     abstain |-> results[i].abstain,
     abstain_reason |-> results[i].abstain_reason,
     confidence |-> results[i].item.confidence]

\* lines 473-486: the MealItemCategory rows of result i
CatRowsOf(call_no, results, i) ==
    LET top == Take(results[i].top3, TopN)
    IN  {[meal_item_id |-> RowId(call_no, i), category_id |-> top[k].category_id,
          rank |-> k, score |-> top[k].score, label |-> top[k].label,
          level |-> top[k].level] : k \in 1..Len(top)}

ItemRows(call_no, meal, results) ==
    {ItemRow(call_no, meal, results, i) : i \in 1..Len(results)}
CatRows(call_no, results) ==
    UNION {CatRowsOf(call_no, results, i) : i \in 1..Len(results)}

\* the extracted event without the meal id in its payload
ExtractedEvent_NoMeal(meal, items) ==
    [event_type |-> "meal_taxonomy_extracted", meal_id |-> "", items |-> Len(items),
     top1_scores |-> << >>, error |-> ""]

\* audit events (EventAudit rows): type and payload
ExtractedEvent(meal, items) ==
    [event_type |-> "meal_taxonomy_extracted", meal_id |-> meal, items |-> Len(items),
     top1_scores |-> << >>, error |-> ""]
LinkedEvent(meal, results) ==
    [event_type |-> "meal_taxonomy_linked", meal_id |-> meal, items |-> Len(results),
     top1_scores |-> [i \in 1..Len(results) |->
                        IF results[i].top3 # << >> THEN results[i].top3[1].score ELSE 0],
     error |-> ""]
FailedEvent(meal, e) ==
    [event_type |-> "meal_taxonomy_failed", meal_id |-> meal, items |-> 0,
     top1_scores |-> << >>, error |-> e]

\* a sqlite writer (an _audit session included) needs the write lock
WriteLockFree(r) == is_sqlite => \A s \in Slots \ {r} : ~run[s].tx.lock

\* a Postgres statement that met rows locked by other transactions resumes
\* when those transactions have ended
Unblocked(r) == \A s \in run[r].tx.wait : ~run[s].tx.open

----------------------------------------------------------------------------
(* process_meal *)

\* the test of the note text without strip()
PreconditionsOk_NoStrip(key, notes) == key \notin {Null, ""} /\ notes # ""

\* lines 505-508
PreconditionsOk(key, notes) == key \notin {Null, ""} /\ Strip(notes) # ""

\* process_meal is called (bot background task or backfill script); the
\* precondition test returns [] at once
Call(r) ==
    /\ run[r].pc \in {"idle", "returned"}
    /\ calls < MaxRuns
    /\ \E meal \in Meals, notes \in NotesTexts, key \in ApiKeys :
          LET base == [IdleRun EXCEPT !.call_no = calls + 1, !.meal_id = meal,
                                      !.notes_text = notes, !.api_key = key]
          IN  run' = [run EXCEPT ![r] =
                        IF PreconditionsOk(key, notes)
                        THEN [base EXCEPT !.pc = "extract",
                                 !.before = [items |-> ItemsOfMeal(db_items, meal),
                                             cats |-> CatsOfMeal(db_items, db_cats, meal)]]
                        ELSE [base EXCEPT !.pc = "returned", !.ret = << >>]]
    /\ calls' = calls + 1
    /\ UNCHANGED <<db_items, db_cats, audit, is_sqlite, botVars, webVars, idxVars, pureVars>>

\* the except branch missing: the error leaves process_meal
FailWith_Propagates(r, e) ==
    /\ run' = [run EXCEPT ![r] = [@ EXCEPT !.pc = "raised", !.error = e,
                                           !.chat_calls = @ + 1, !.before = NoSnapshot]]
    /\ UNCHANGED <<db_items, db_cats, audit, calls, is_sqlite, botVars, webVars, idxVars, pureVars>>

\* lines 557-564: the except branch: failure event, return []
FailWith(r, e) ==
    /\ run' = [run EXCEPT ![r] = [@ EXCEPT !.pc = "returned", !.ret = << >>, !.error = e,
                                           !.chat_calls = @ + 1, !.before = NoSnapshot]]
    /\ audit' = Append(audit, FailedEvent(run[r].meal_id, e))
    /\ UNCHANGED <<db_items, db_cats, calls, is_sqlite, botVars, webVars, idxVars, pureVars>>

\* what makes extract_items raise
ExtractError(out) ==
    CASE out.kind = "error" -> out.error
      [] out.kind = "array" -> "Extractor response must be a JSON object"
      [] out.kind = "object" /\ TypeRaises(out.items) ->
             "AttributeError: object has no attribute 'strip'"
      [] OTHER -> ""

\* lines 511-525: extract_items and the extracted event
Extract(r) ==
    /\ run[r].pc = "extract"
    /\ WriteLockFree(r)
    /\ \E out \in ExtractOutcomes :
          IF ExtractError(out) # "" THEN FailWith(r, ExtractError(out))
          ELSE LET items == ExtractItems(out.items)
               IN  /\ run' = [run EXCEPT ![r] =
                                [@ EXCEPT !.pc = IF items = << >> THEN "persist" ELSE "link",
                                          !.items = items, !.chat_calls = @ + 1]]
                   /\ audit' = Append(audit, ExtractedEvent(run[r].meal_id, items))
                   /\ UNCHANGED <<db_items, db_cats, calls, is_sqlite, botVars, webVars, idxVars, pureVars>>

\* what makes link_item_top3 raise
RerankError(out) ==
    CASE out.kind = "error" -> out.error
      [] out.kind = "array" -> "Rerank response must be a JSON object"
      [] OTHER -> ""

\* results.insert(0, r)
AppendResult_Prepend(results, res) == <<res>> \o results

\* results.append(r), line 537
AppendResult(results, res) == Append(results, res)

\* the loop with the rows of each item written as soon as it is linked
Link_PersistsEachItem(r) ==
    /\ run[r].pc = "link"
    /\ \E out \in RerankOutcomes :
          IF RerankError(out) # "" THEN FailWith(r, RerankError(out))
          ELSE LET item == run[r].items[Len(run[r].results) + 1]
                   candidates == LinkCandidates(item)
                   results == Append(run[r].results,
                                  MakeLinkResult(item, out.obj, candidates, Lang))
               IN  /\ run' = [run EXCEPT ![r] =
                                [@ EXCEPT !.pc = IF Len(results) >= Len(run[r].items)
                                                 THEN "persist" ELSE "link",
                                          !.results = results,
                                          !.presented = Append(@, CandidateIds(candidates)),
                                          !.chat_calls = @ + 1]]
                   /\ db_items' = db_items \cup
                          {ItemRow(run[r].call_no, run[r].meal_id, results, Len(results))}
                   /\ db_cats' = db_cats \cup CatRowsOf(run[r].call_no, results, Len(results))
                   /\ UNCHANGED <<audit, calls, is_sqlite, botVars, webVars, idxVars, pureVars>>

\* lines 526-537: one turn of the loop: link_item_top3 on the next item
Link(r) ==
    /\ run[r].pc = "link"
    /\ WriteLockFree(r)
    /\ \E out \in RerankOutcomes :
          IF RerankError(out) # "" THEN FailWith(r, RerankError(out))
          ELSE LET item == run[r].items[Len(run[r].results) + 1]
                   candidates == LinkCandidates(item)
                   results == AppendResult(run[r].results,
                                  MakeLinkResult(item, out.obj, candidates, Lang))
               IN  /\ run' = [run EXCEPT ![r] =
                                [@ EXCEPT !.pc = IF Len(results) >= Len(run[r].items)
                                                 THEN "persist" ELSE "link",
                                          !.results = results,
                                          !.presented = Append(@, CandidateIds(candidates)),
                                          !.chat_calls = @ + 1]]
                   /\ UNCHANGED <<db_items, db_cats, audit, calls, is_sqlite, botVars, webVars, idxVars, pureVars>>

----------------------------------------------------------------------------
(* persist_results: one session, statement by statement *)

\* lines 440-443: select(MealItem.id).where(MealItem.meal_id == meal_id)
PersistSelect(r) ==
    /\ run[r].pc = "persist"
    /\ LET ids == {i.id : i \in ItemsOfMeal(db_items, run[r].meal_id)}
       IN  run' = [run EXCEPT ![r] =
                     [@ EXCEPT !.pc = IF ids # {} THEN "delete_cats" ELSE "delete_items",
                               !.tx = [NoTx EXCEPT !.open = TRUE, !.sel = ids]]]
    /\ UNCHANGED <<db_items, db_cats, audit, calls, is_sqlite, botVars, webVars, idxVars, pureVars>>

\* rows of a set that another open transaction has deleted (and so locked)
LockedCats(r, rows) == {c \in rows : \E s \in Slots \ {r} : c \in run[s].tx.delC}
LockedItems(r, rows) == {i \in rows : \E s \in Slots \ {r} : i \in run[s].tx.delI}
HoldersOfCats(r, rows) == {s \in Slots \ {r} : run[s].tx.delC \cap rows # {}}
HoldersOfItems(r, rows) == {s \in Slots \ {r} : run[s].tx.delI \cap rows # {}}

\* lines 444-447: delete(MealItemCategory).where(meal_item_id.in_(ids))
PersistDeleteCats(r) ==
    /\ run[r].pc = "delete_cats"
    /\ WriteLockFree(r)
    /\ LET rows == {c \in db_cats : c.meal_item_id \in run[r].tx.sel}
       IN  run' = [run EXCEPT ![r] =
                     [@ EXCEPT !.pc = "delete_items",
                               !.tx = [@ EXCEPT !.lock = is_sqlite,
                                                !.delC = rows \ LockedCats(r, rows),
                                                !.wait = HoldersOfCats(r, rows)]]]
    /\ UNCHANGED <<db_items, db_cats, audit, calls, is_sqlite, botVars, webVars, idxVars, pureVars>>

\* replace_existing = False: nothing is deleted
DeleteTargets_None(meal) == {}

\* the rows line 448 deletes
DeleteTargets(meal) == ItemsOfMeal(db_items, meal)

\* line 448: delete(MealItem).where(MealItem.meal_id == meal_id)
PersistDeleteItems(r) ==
    /\ run[r].pc = "delete_items"
    /\ WriteLockFree(r)
    /\ Unblocked(r)
    /\ LET rows == DeleteTargets(run[r].meal_id)
       IN  run' = [run EXCEPT ![r] =
                     [@ EXCEPT !.pc = "insert",
                               !.tx = [@ EXCEPT !.lock = is_sqlite,
                                                !.delI = rows \ LockedItems(r, rows),
                                                !.wait = HoldersOfItems(r, rows)]]]
    /\ UNCHANGED <<db_items, db_cats, audit, calls, is_sqlite, botVars, webVars, idxVars, pureVars>>

\* lines 450-486: the rows added for every result (not visible to other
\* sessions before the commit)
PersistInsert(r) ==
    /\ run[r].pc = "insert"
    /\ Unblocked(r)
    /\ run' = [run EXCEPT ![r] =
                 [@ EXCEPT !.pc = "commit",
                           !.tx = [@ EXCEPT !.wait = {},
                                     !.insI = ItemRows(run[r].call_no, run[r].meal_id,
                                                       run[r].results),
                                     !.insC = CatRows(run[r].call_no, run[r].results)]]]
    /\ UNCHANGED <<db_items, db_cats, audit, calls, is_sqlite, botVars, webVars, idxVars, pureVars>>

\* get_session, session.commit() on leaving the with block
PersistCommit(r) ==
    /\ run[r].pc = "commit"
    /\ db_items' = (db_items \ run[r].tx.delI) \cup run[r].tx.insI
    /\ db_cats' = (db_cats \ run[r].tx.delC) \cup run[r].tx.insC
    /\ run' = [run EXCEPT ![r] = [@ EXCEPT !.pc = "audit_linked", !.tx = NoTx]]
    /\ UNCHANGED <<audit, calls, is_sqlite, botVars, webVars, idxVars, pureVars>>

\* the results are returned without the linked event
AuditLinked_Silent(r) ==
    /\ run[r].pc = "audit_linked"
    /\ WriteLockFree(r)
    /\ run' = [run EXCEPT ![r] = [@ EXCEPT !.pc = "returned", !.ret = run[r].results,
                                           !.before = NoSnapshot]]
    /\ UNCHANGED <<db_items, db_cats, audit, calls, is_sqlite, botVars, webVars, idxVars, pureVars>>

\* lines 546-556: the linked event, return results
AuditLinked(r) ==
    /\ run[r].pc = "audit_linked"
    /\ WriteLockFree(r)
    /\ audit' = Append(audit, LinkedEvent(run[r].meal_id, run[r].results))
    /\ run' = [run EXCEPT ![r] = [@ EXCEPT !.pc = "returned", !.ret = run[r].results,
                                           !.before = NoSnapshot]]
    /\ UNCHANGED <<db_items, db_cats, calls, is_sqlite, botVars, webVars, idxVars, pureVars>>

----------------------------------------------------------------------------
(* Specification of process_meal calls made one after another *)

\* the results of the earlier classification of EarlierMeal (call number 0)
EarlierResults ==
    << MakeLinkResult(MakeItem(RawSoup),
                      [top_k |-> <<TopEntry("en:soups", Num(90))>>, abstain |-> FALSE,
                       abstain_reason |-> Null],
                      LinkCandidates(MakeItem(RawSoup)), Lang) >>

Init ==
    /\ run = [r \in Slots |-> IdleRun]
    /\ db_items = ItemRows(0, EarlierMeal, EarlierResults)
    /\ db_cats = CatRows(0, EarlierResults)
    /\ audit = <<ExtractedEvent(EarlierMeal, <<MakeItem(RawSoup)>>),
                 LinkedEvent(EarlierMeal, EarlierResults)>>
    /\ calls = 0
    /\ is_sqlite = TRUE
    /\ BotIdle
    /\ WebIdle
    /\ IndexEmpty
    /\ NoCall

Next ==
    \/ Call(1)
    \/ Extract(1)
    \/ Link(1)
    \/ PersistSelect(1)
    \/ PersistDeleteCats(1)
    \/ PersistDeleteItems(1)
    \/ PersistInsert(1)
    \/ PersistCommit(1)
    \/ AuditLinked(1)

Spec == Init /\ [][Next]_vars

----------------------------------------------------------------------------
(* Properties of process_meal under Spec *)

Returned(r) == run[r].pc = "returned"
\* the call passed the precondition test and returned without an error
Succeeded(r) == Returned(r) /\ run[r].error = "" /\ run[r].chat_calls > 0
PresentedIds(r, i) == run[r].presented[i]

\* C1: every category id of a top3 built by link_item_top3, and every category
\* link stored for the item, is the id of a candidate presented for that item.
C1_Top3WithinPresented ==
    \A r \in Slots :
        /\ \A i \in 1..Len(run[r].results) :
              \A k \in 1..Len(run[r].results[i].top3) :
                  run[r].results[i].top3[k].category_id \in PresentedIds(r, i)
        /\ Succeeded(r) =>
              \A i \in 1..Len(run[r].ret) :
                  \A c \in db_cats :
                      c.meal_item_id = RowId(run[r].call_no, i) =>
                          c.category_id \in PresentedIds(r, i)

\* C2: an ItemLinkResult with abstain = TRUE has an empty top3, and an
\* abstaining item has no category link row.
C2_AbstainHasNoCategories ==
    /\ \A r \in Slots :
          \A i \in 1..Len(run[r].results) :
              run[r].results[i].abstain => run[r].results[i].top3 = << >>
    /\ \A row \in db_items :
          row.abstain => ~\E c \in db_cats : c.meal_item_id = row.id

\* C3: a call that ends because linking an item failed leaves the rows of its
\* meal exactly as they were when the call started.
C3_AllOrNothing ==
    [][\A r \in Slots :
          (run[r].pc = "link" /\ run'[r].pc # "link" /\ run'[r].error # "") =>
              /\ run'[r].pc = "returned"
              /\ ItemsOfMeal(db_items', run[r].meal_id) = run[r].before.items
              /\ CatsOfMeal(db_items', db_cats', run[r].meal_id) = run[r].before.cats]_vars

\* a call failed on its second item while rows of an earlier call were stored
C3_Witness ==
    /\ Returned(1) /\ run[1].error # ""
    /\ Len(run[1].items) = 2 /\ Len(run[1].results) = 1
    /\ ItemsOfMeal(db_items, run[1].meal_id) # {}
    /\ CatsOfMeal(db_items, db_cats, run[1].meal_id) # {}

\* C4: after a successful call the item rows of the meal are exactly the rows
\* of that call's results (N results leave N rows), their category links are
\* exactly those of that call, and no link row is left without its item.
C4_RerunReplaces ==
    \A r \in Slots :
        Succeeded(r) =>
            /\ ItemsOfMeal(db_items, run[r].meal_id)
                   = ItemRows(run[r].call_no, run[r].meal_id, run[r].ret)
            /\ Cardinality(ItemsOfMeal(db_items, run[r].meal_id)) = Len(run[r].ret)
            /\ CatsOfMeal(db_items, db_cats, run[r].meal_id)
                   = CatRows(run[r].call_no, run[r].ret)
            /\ \A c \in db_cats : \E i \in db_items : i.id = c.meal_item_id

\* a second successful call for a meal whose first call stored two items
C4_Witness ==
    /\ Succeeded(1) /\ Len(run[1].ret) = 2
    /\ \E k \in 1..Len(audit) :
          /\ audit[k].event_type = "meal_taxonomy_linked"
          /\ audit[k].meal_id = run[1].meal_id
          /\ audit[k].items = 2
          /\ k < Len(audit)

\* C5: a failed extraction or linking never leaves process_meal as an error:
\* the call returns [], and the last audit row is the failed event with the
\* meal id and the error text.
C5_FailureIsCaught ==
    \A r \in Slots :
        /\ run[r].pc # "raised"
        /\ (run[r].pc \notin {"idle", "extract", "link"} /\ run[r].error # "") =>
              /\ Returned(r)
              /\ run[r].ret = << >>
              /\ audit # << >>
              /\ audit[Len(audit)].event_type = "meal_taxonomy_failed"
              /\ audit[Len(audit)].meal_id = run[r].meal_id
              /\ audit[Len(audit)].error = run[r].error

\* a transport error while linking, and a contract error
C5_Witness ==
    /\ Returned(1)
    /\ run[1].error \in {"OpenAI request failed: transport", "OpenAI request failed: contract"}
    /\ run[1].items # << >>

\* C6: the results are linked in extraction order (result i holds item i at
\* every moment of the loop) and a successful call returns one result per
\* extracted item, abstaining items included.
C6_OneResultPerItemInOrder ==
    \A r \in Slots :
        /\ Len(run[r].results) <= Len(run[r].items)
        /\ \A i \in 1..Len(run[r].results) : run[r].results[i].item = run[r].items[i]
        /\ Succeeded(r) =>
              /\ Len(run[r].ret) = Len(run[r].items)
              /\ \A i \in 1..Len(run[r].ret) : run[r].ret[i].item = run[r].items[i]

\* two different items, the first of them abstaining
C6_Witness ==
    /\ Succeeded(1) /\ Len(run[1].ret) = 2
    /\ run[1].ret[1].abstain /\ ~run[1].ret[2].abstain
    /\ run[1].items[1] # run[1].items[2]

\* C7: a call with an empty or whitespace-only note text or without a key
\* returns [] in the step that makes it: no inference-service call, no audit
\* row, no change of the stored rows.
C7_PreconditionFailureHasNoEffect ==
    [][\A r \in Slots :
          (/\ run'[r] # run[r]
           /\ run'[r].call_no # run[r].call_no
           /\ (run'[r].api_key \in {Null, ""} \/ run'[r].notes_text \in {"", " ", "  "})) =>
              /\ run'[r].pc = "returned"
              /\ run'[r].ret = << >>
              /\ run'[r].chat_calls = 0
              /\ audit' = audit
              /\ db_items' = db_items
              /\ db_cats' = db_cats]_vars

\* a whitespace-only note with a key, for a meal that has stored rows
C7_Witness ==
    /\ Returned(1) /\ run[1].notes_text = "  " /\ run[1].api_key = "sk-test"
    /\ run[1].chat_calls = 0 /\ run[1].ret = << >>
    /\ ItemsOfMeal(db_items, run[1].meal_id) # {}

----------------------------------------------------------------------------
(* Two process_meal calls for the same meal (the bot's background task and  *)
(* the backfill script) that have both linked their items and both call     *)
(* persist_results: every interleaving of the statements of the two         *)
(* sessions, on sqlite and on Postgres (READ COMMITTED).                    *)

ResultSoup ==
    MakeLinkResult(MakeItem(RawSoup),
        [top_k |-> <<TopEntry("en:soups", Num(90))>>, abstain |-> FALSE,
         abstain_reason |-> Null],
        LinkCandidates(MakeItem(RawSoup)), Lang)
ResultTea ==
    MakeLinkResult(MakeItem(RawTea),
        [top_k |-> <<TopEntry("en:teas", Num(150))>>, abstain |-> FALSE,
         abstain_reason |-> Null],
        LinkCandidates(MakeItem(RawTea)), Lang)

\* the result lists the two calls may have reached
PersistInputs == {<<ResultSoup>>, <<ResultSoup, ResultTea>>}

ItemsOfResults(results) == [i \in 1..Len(results) |-> results[i].item]

\* a call that has linked all its items
LinkedRun(call_no, meal, results, items0, cats0) ==
    [IdleRun EXCEPT !.pc = "persist", !.call_no = call_no, !.meal_id = meal,
        !.notes_text = "soup and tea", !.api_key = "sk-test",
        !.items = ItemsOfResults(results), !.results = results,
        !.presented = [i \in 1..Len(results) |-> CandidateIds(LinkCandidates(results[i].item))],
        !.chat_calls = 1 + Len(results),
        !.before = [items |-> ItemsOfMeal(items0, meal),
                    cats |-> CatsOfMeal(items0, cats0, meal)]]

InitPersist ==
    /\ is_sqlite \in BOOLEAN
    /\ calls = 3
    /\ \E prior \in {<< >>} \cup PersistInputs, res1 \in PersistInputs, res2 \in PersistInputs :
          LET items0 == ItemRows(0, EarlierMeal, EarlierResults) \cup ItemRows(1, "m1", prior)
              cats0 == CatRows(0, EarlierResults) \cup CatRows(1, prior)
          IN  /\ db_items = items0
              /\ db_cats = cats0
              /\ audit = <<ExtractedEvent(EarlierMeal, <<MakeItem(RawSoup)>>),
                           LinkedEvent(EarlierMeal, EarlierResults)>>
                         \o (IF prior = << >> THEN << >>
                             ELSE <<ExtractedEvent("m1", ItemsOfResults(prior)),
                                    LinkedEvent("m1", prior)>>)
                         \o <<ExtractedEvent("m1", ItemsOfResults(res1)),
                              ExtractedEvent("m1", ItemsOfResults(res2))>>
              /\ run = [r \in Slots |->
                          LinkedRun(r + 1, "m1", IF r = 1 THEN res1 ELSE res2, items0, cats0)]
    /\ BotIdle
    /\ WebIdle
    /\ IndexEmpty
    /\ NoCall

NextPersist ==
    \E r \in Slots :
        \/ PersistSelect(r)
        \/ PersistDeleteCats(r)
        \/ PersistDeleteItems(r)
        \/ PersistInsert(r)
        \/ PersistCommit(r)
        \/ AuditLinked(r)

SpecPersist == InitPersist /\ [][NextPersist]_vars

\* C8: when both calls have persisted and returned, the item rows of the meal
\* are exactly the rows of one call (the later writer), never rows of both.
C8_LastWriterWins ==
    (\A r \in Slots : Succeeded(r)) =>
        \E r \in Slots :
            ItemsOfMeal(db_items, "m1") = ItemRows(run[r].call_no, "m1", run[r].ret)

----------------------------------------------------------------------------
(* handlers_flows.py: the confirm step of the meal flow.  One action per    *)
(* stretch of meal_confirm_cb and of its task _run_and_notify between two   *)
(* awaits; process_meal runs where line 514 puts it and is summarised by    *)
(* its outcome (a list of results, an empty list, an exception) or by       *)
(* never ending.  Calls to the Telegram API are taken to succeed, except    *)
(* the task's send_message.                                                 *)

\* meal_input_msg .. meal_prompt_confirm: the draft is complete and the
\* conversation waits for the confirm callback
meal_prompt_confirm(notes) ==
    /\ handler.pc = "idle"
    /\ loop = LoopFree
    /\ conv = "END"
    /\ Cardinality(saved_meals) < MaxSaves
    /\ draft' = [present |-> TRUE, notes_text |-> Strip(notes)]
    /\ conv' = "MEAL_CONFIRM"
    /\ UNCHANGED <<handler, saved_meals, tasks, loop, chat, returns, pipeVars, idxVars, pureVars, webVars>>

\* lines 482-485: the callback arrives, await q.answer()
ConfirmCallback(cb, has_message) ==
    /\ handler.pc = "idle"
    /\ loop = LoopFree
    /\ conv = "MEAL_CONFIRM"
    /\ handler' = [handler EXCEPT !.pc = "answer", !.cb = cb, !.has_message = has_message]
    /\ UNCHANGED <<draft, saved_meals, tasks, loop, chat, conv, returns, pipeVars, idxVars, pureVars, webVars>>

\* lines 486-500: not a save: return MEAL_CONFIRM; else create_meal
ConfirmStore ==
    /\ handler.pc = "answer"
    /\ loop = LoopFree
    /\ IF handler.cb # "save"
       THEN /\ handler' = [handler EXCEPT !.pc = "idle", !.cb = ""]
            /\ UNCHANGED <<saved_meals, loop>>
       ELSE LET id == Cardinality(saved_meals) + 1
            IN  /\ saved_meals' = saved_meals \cup {[id |-> id, notes_text |-> draft.notes_text]}
                /\ handler' = [handler EXCEPT !.pc = "stored", !.save = id]
                /\ loop' = ByHandler
    /\ UNCHANGED <<draft, tasks, chat, conv, returns, pipeVars, idxVars, pureVars, webVars>>

\* lines 502-509 and 541-547: the task is created with chat_id, the key and
\* the stripped notes in its closure, the draft is cleared, await
\* edit_message_text
ConfirmSpawn ==
    /\ handler.pc = "stored"
    /\ loop = ByHandler
    /\ tasks' = [tasks EXCEPT ![handler.save] =
                   [pc |-> "created", results |-> "none",
                    chat_id |-> handler.has_message,
                    notes_text |-> Strip(draft.notes_text),
                    openai_api_key |-> handler.openai_api_key]]
    /\ draft' = NoDraft
    /\ handler' = [handler EXCEPT !.pc = "edit"]
    /\ loop' = LoopFree
    /\ UNCHANGED <<saved_meals, chat, conv, returns, pipeVars, idxVars, pureVars, webVars>>

\* line 550: return ConversationHandler.END
ReturnEnd ==
    /\ handler' = [IdleHandler EXCEPT !.openai_api_key = handler.openai_api_key]
    /\ conv' = "END"
    /\ returns' = [returns EXCEPT ![handler.save] =
                     [state |-> "END", draft_cleared |-> ~draft.present]]

\* line 547 completes: the meal is confirmed as logged; lines 548-549
ConfirmEdited ==
    /\ handler.pc = "edit"
    /\ loop = LoopFree
    /\ chat' = Append(chat, [text |-> "meal.logged", save |-> handler.save])
    /\ IF handler.has_message
       THEN /\ handler' = [handler EXCEPT !.pc = "reply"]
            /\ UNCHANGED <<conv, returns>>
       ELSE ReturnEnd
    /\ UNCHANGED <<draft, saved_meals, tasks, loop, pipeVars, idxVars, pureVars, webVars>>

\* line 549 completes
ConfirmReplied ==
    /\ handler.pc = "reply"
    /\ loop = LoopFree
    /\ chat' = Append(chat, [text |-> "common.what_next", save |-> handler.save])
    /\ ReturnEnd
    /\ UNCHANGED <<draft, saved_meals, tasks, loop, pipeVars, idxVars, pureVars, webVars>>

\* process_meal called in the coroutine itself: the event loop thread is
\* taken until it ends
LoopAfterDispatch_Inline(t) == ByTask(t)

\* line 514: await asyncio.to_thread(process_meal, ...) hands the call to a
\* worker thread and suspends the task, the event loop thread is free
LoopAfterDispatch(t) == LoopFree

\* lines 511-514: the task starts; it returns at once without chat, key or
\* notes
TaskStart(t) ==
    /\ tasks[t].pc = "created"
    /\ loop = LoopFree
    /\ IF \/ ~tasks[t].chat_id
          \/ tasks[t].openai_api_key \in {Null, ""}
          \/ tasks[t].notes_text = ""
       THEN /\ tasks' = [tasks EXCEPT ![t].pc = "done"]
            /\ UNCHANGED loop
       ELSE /\ tasks' = [tasks EXCEPT ![t].pc = "classifying"]
            /\ loop' = LoopAfterDispatch(t)
    /\ UNCHANGED <<handler, draft, saved_meals, chat, conv, returns, pipeVars, idxVars, pureVars, webVars>>

\* lines 514-523: process_meal ends in its thread with a list of results, with
\* an empty list or with an exception
ClassifyEnds(t, outcome) ==
    /\ tasks[t].pc = "classifying"
    /\ tasks' = [tasks EXCEPT ![t].pc = IF outcome = "raised" THEN "failed" ELSE "resumed",
                              ![t].results = outcome]
    /\ loop' = IF loop = ByTask(t) THEN LoopFree ELSE loop
    /\ UNCHANGED <<handler, draft, saved_meals, chat, conv, returns, pipeVars, idxVars, pureVars, webVars>>

\* lines 524-539: no results: return; else await send_message
TaskResume(t) ==
    /\ tasks[t].pc = "resumed"
    /\ loop = LoopFree
    /\ tasks' = [tasks EXCEPT ![t].pc = IF tasks[t].results = "empty" THEN "done"
                                        ELSE "sending"]
    /\ UNCHANGED <<handler, draft, saved_meals, loop, chat, conv, returns, pipeVars, idxVars, pureVars, webVars>>

\* line 539 completes, or raises in the task
TaskSent(t, ok) ==
    /\ tasks[t].pc = "sending"
    /\ loop = LoopFree
    /\ tasks' = [tasks EXCEPT ![t].pc = IF ok THEN "done" ELSE "failed"]
    /\ chat' = IF ok THEN Append(chat, [text |-> "items", save |-> t]) ELSE chat
    /\ UNCHANGED <<handler, draft, saved_meals, loop, conv, returns, pipeVars, idxVars, pureVars, webVars>>

PipeIdle ==
    /\ run = [r \in Slots |-> IdleRun]
    /\ db_items = {}
    /\ db_cats = {}
    /\ audit = << >>
    /\ calls = 0
    /\ is_sqlite = TRUE

InitSave ==
    /\ \E key \in {Null, "sk-test"} : BotStart(key)
    /\ WebIdle
    /\ PipeIdle
    /\ IndexEmpty
    /\ NoCall

HandlerStep == ConfirmStore \/ ConfirmSpawn \/ ConfirmEdited \/ ConfirmReplied

NextSave ==
    \/ \E notes \in DraftNotes : meal_prompt_confirm(notes)
    \/ \E cb \in CallbackValues, has_message \in BOOLEAN : ConfirmCallback(cb, has_message)
    \/ ConfirmStore
    \/ ConfirmSpawn
    \/ ConfirmEdited
    \/ ConfirmReplied
    \/ \E t \in SaveIds :
          \/ TaskStart(t)
          \/ \E outcome \in ClassifyOutcomes : ClassifyEnds(t, outcome)
          \/ TaskResume(t)
          \/ \E ok \in BOOLEAN : TaskSent(t, ok)

\* the event loop runs a coroutine that is ready, and Telegram answers the
\* handler's calls; nothing is assumed about process_meal ever ending
SpecSave == InitSave /\ [][NextSave]_vars /\ WF_vars(HandlerStep)

Logged(s) == \E i \in 1..Len(chat) : chat[i] = [text |-> "meal.logged", save |-> s]
SaveCompleted(s) ==
    /\ returns[s].state = "END"
    /\ returns[s].draft_cleared
    /\ Logged(s)

\* C9: a classification task exists only for a meal that is already stored,
\* and every save that has stored its meal goes on to clear the draft, confirm
\* the meal as logged and end the conversation, with no assumption that
\* classification ever ends or how it ends.
C9_FireAndForget ==
    /\ [](\A t \in SaveIds : tasks[t].pc # "none" => t \in StoredIds)
    /\ \A s \in SaveIds : (s \in StoredIds) ~> SaveCompleted(s)

\* one save completed while its classification is still running, another
\* completed and its classification failed
C9_Witness ==
    \E s \in SaveIds, t \in SaveIds :
        /\ SaveCompleted(s) /\ tasks[s].pc = "classifying"
        /\ SaveCompleted(t) /\ tasks[t].pc = "failed"

----------------------------------------------------------------------------
(* taxonomy_index.py: get_taxonomy_index under functools.lru_cache(maxsize=1) *)
(* called from several threads (the process_meal threads started by          *)
(* _run_and_notify, the dashboard server thread).  The cache looks the key   *)
(* up, calls the wrapped function outside of any lock when the key is        *)
(* missing, and stores the result afterwards unless the key has been stored  *)
(* in the meantime; the caller gets the object its own call has built.       *)

\* the cache lookup of a call: a hit returns the cached object
IndexLookup(t) ==
    /\ thr[t].pc = "idle"
    /\ thr[t].ncalls < MaxIndexCalls
    /\ IF cache # {}
       THEN /\ handles' = handles \cup cache
            /\ thr' = [thr EXCEPT ![t].ncalls = @ + 1]
       ELSE /\ thr' = [thr EXCEPT ![t].pc = "building"]
            /\ UNCHANGED handles
    /\ UNCHANGED <<cache, built, pipeVars, botVars, webVars, pureVars>>

\* line 263: return TaxonomyIndex(), a new object is constructed
IndexBuild(t) ==
    /\ thr[t].pc = "building"
    /\ built' = built + 1
    /\ thr' = [thr EXCEPT ![t].pc = "storing", ![t].obj = built + 1]
    /\ UNCHANGED <<cache, handles, pipeVars, botVars, webVars, pureVars>>

\* the result is stored if the key is still missing, and returned
IndexStore(t) ==
    /\ thr[t].pc = "storing"
    /\ cache' = IF cache = {} THEN {thr[t].obj} ELSE cache
    /\ handles' = handles \cup {thr[t].obj}
    /\ thr' = [thr EXCEPT ![t].pc = "idle", ![t].ncalls = @ + 1]
    /\ UNCHANGED <<built, pipeVars, botVars, webVars, pureVars>>

InitIndex ==
    /\ PipeIdle
    /\ BotIdle
    /\ WebIdle
    /\ IndexEmpty
    /\ NoCall

NextIndex ==
    \E t \in IndexThreads :
        \/ IndexLookup(t)
        \/ IndexBuild(t)
        \/ IndexStore(t)

SpecIndex == InitIndex /\ [][NextIndex]_vars

\* C10: the index is constructed at most once and every call returns the same
\* object, also when the first calls overlap.
C10_Singleton ==
    /\ built <= 1
    /\ Cardinality(handles) <= 1

----------------------------------------------------------------------------
(* taxonomy_index.py: _compute_levels on every graph of MaxNodes nodes whose *)
(* stored parent lists have up to MaxParents entries (nodes and an id that  *)
(* is not a node), statement by statement.  The roots and the children of a *)
(* node are Python sets: every iteration order is taken.                    *)

\* everything outside the function call is at rest
RestIdle ==
    /\ PipeIdle
    /\ BotIdle
    /\ WebIdle
    /\ IndexEmpty

NodeUniverse == <<"en:food", "en:soups", "en:teas", "en:broths", "en:stocks">>
GraphNodes == Take(NodeUniverse, MaxNodes)
UnknownId == "en:beverages"
\* _compute_levels puts the parent ids into sets (lines 83-86): the stored
\* lists are drawn without repeats and in one order
Graphs ==
    LET ParentLists ==
            {SelectSeq(GraphNodes \o <<UnknownId>>, LAMBDA x : x \in S) :
                S \in {T \in SUBSET (Range(GraphNodes) \cup {UnknownId}) :
                          Cardinality(T) <= MaxParents}}
    IN
    {[order |-> GraphNodes,
      payload |-> [n \in Range(GraphNodes) |->
                     [is_dict |-> TRUE, name_is_dict |-> TRUE, name |-> TaxName(n),
                      parents_is_list |-> TRUE, parents |-> ps[n]]]] :
        ps \in [Range(GraphNodes) -> ParentLists]}

\* the orders in which a Python set can be iterated
Perms(S) == {p \in [1..Cardinality(S) -> S] : \A i, j \in DOMAIN p : i # j => p[i] # p[j]}

\* child_map[u]
ChildMap(tax, u) == {v \in Range(tax.order) : u \in ParentMap(tax, v)}

\* cand = base, the level of the parent itself
NextLevel_Same(base) == base

\* line 100: cand = base + 1
NextLevel(base) == base + 1

\* lines 99-104: the loop over the children vs[i..] of the popped node
RECURSIVE RelaxAll(_, _, _)
RelaxAll(st, vs, base) ==
    IF vs = << >> THEN st
    ELSE LET v == Head(vs)
             cand == NextLevel(base)
         IN  IF v \notin DOMAIN st.level \/ cand < st.level[v]
             THEN RelaxAll([st EXCEPT !.level = [n \in DOMAIN st.level \cup {v} |->
                                                   IF n = v THEN cand ELSE st.level[n]],
                                      !.q = Append(st.q, v)],
                           Tail(vs), base)
             ELSE RelaxAll(st, Tail(vs), base)

\* lines 78-94: the maps, the roots, level 0 and the queue of the roots
LevelsStart ==
    /\ fcall.fn = "_compute_levels"
    /\ flocals.pc = "start"
    /\ \E order \in Perms(Roots(fcall.tax)) :
          flocals' = [pc |-> "bfs", level |-> [r \in Roots(fcall.tax) |-> 0], q |-> order]
    /\ UNCHANGED <<fcall, fresult, pipeVars, botVars, webVars, idxVars>>

\* lines 95-104: u = q.popleft() and the relaxation of its children
LevelsPop ==
    /\ fcall.fn = "_compute_levels"
    /\ flocals.pc = "bfs"
    /\ flocals.q # << >>
    /\ LET u == Head(flocals.q)
       IN  \E order \in Perms(ChildMap(fcall.tax, u)) :
              flocals' = RelaxAll([flocals EXCEPT !.q = Tail(@)], order, flocals.level[u])
    /\ UNCHANGED <<fcall, fresult, pipeVars, botVars, webVars, idxVars>>

\* lines 106-109: the queue is empty, the other nodes get level 0
LevelsFinish ==
    /\ fcall.fn = "_compute_levels"
    /\ flocals.pc = "bfs"
    /\ flocals.q = << >>
    /\ flocals' = [pc |-> "done"]
    /\ fresult' = [fn |-> "_compute_levels",
                   levels |-> [n \in Range(fcall.tax.order) |->
                                 IF n \in DOMAIN flocals.level THEN flocals.level[n] ELSE 0]]
    /\ UNCHANGED <<fcall, pipeVars, botVars, webVars, idxVars>>

InitLevels ==
    /\ RestIdle
    /\ \E g \in Graphs : fcall = [fn |-> "_compute_levels", tax |-> g]
    /\ flocals = [pc |-> "start"]
    /\ fresult = [fn |-> "none"]

NextLevels == LevelsStart \/ LevelsPop \/ LevelsFinish

SpecLevels == InitLevels /\ [][NextLevels]_vars

\* the parent ids of n that are nodes of the graph, read from the stored list
KnownParentsOf(g, n) ==
    {g.payload[n].parents[i] : i \in 1..Len(g.payload[n].parents)} \cap Range(g.order)
\* the nodes k parent hops above the nodes of S
RECURSIVE HopsUp(_, _, _)
HopsUp(g, S, k) ==
    IF k = 0 THEN S ELSE HopsUp(g, UNION {KnownParentsOf(g, x) : x \in S}, k - 1)
\* the least number of parent hops from n to a node without known parents;
\* 0 when there is no such path
MinHops(g, n) ==
    LET ks == {k \in 0..Len(g.order) :
                  \E x \in HopsUp(g, {n}, k) : KnownParentsOf(g, x) = {}}
    IN  IF ks = {} THEN 0 ELSE CHOOSE k \in ks : \A j \in ks : k <= j

\* C11: the level _compute_levels returns for a node is the least number of
\* parent hops from the node to a root (a node none of whose parent ids is a
\* node), and 0 for a node no root reaches; the layer-by-layer operator used
\* by the index gives the same levels.
C11_LevelIsMinHops ==
    fresult.fn = "_compute_levels" =>
        /\ \A n \in Range(fcall.tax.order) : fresult.levels[n] = MinHops(fcall.tax, n)
        /\ fresult.levels = _compute_levels(fcall.tax)

\* a node with parents at levels 1 and 2 got level 2, and a node on a cycle
\* that no root reaches got level 0
C11_Witness ==
    /\ fresult.fn = "_compute_levels"
    /\ \E n, a, b \in Range(fcall.tax.order) :
          /\ n \notin {a, b}
          /\ {a, b} \subseteq KnownParentsOf(fcall.tax, n)
          /\ fresult.levels[a] = 1 /\ fresult.levels[b] = 2 /\ fresult.levels[n] = 2

\* a cycle that no root reaches: its nodes fall back to level 0
C11_WitnessCycle ==
    /\ fresult.fn = "_compute_levels"
    /\ \E n, m \in Range(fcall.tax.order) :
          /\ n # m
          /\ m \in KnownParentsOf(fcall.tax, n) /\ n \in KnownParentsOf(fcall.tax, m)
          /\ fresult.levels[n] = 0 /\ fresult.levels[m] = 0

----------------------------------------------------------------------------
(* taxonomy_index.py: get_label and get_parent_ids on an index of one node   *)
(* whose payload is drawn: a "name" mapping of up to MaxLabels languages     *)
(* (labels with surrounding blanks, blank labels, values that are not        *)
(* strings, or no mapping at all) and a "parents" list of up to MaxParents   *)
(* entries (ids, empty strings, values that are not strings, or no list).    *)

LookupNode == "en:soups"
LookupPayloads ==
    LET NameDicts ==
            {nm \in SeqsUpTo({"en", "ru", "fr"} \X {"soup", "supy", " soup ", "  ", NonStr},
                             MaxLabels) :
                \A i, j \in 1..Len(nm) : i # j => nm[i][1] # nm[j][1]}
        StoredParents == SeqsUpTo({"en:food", UnknownId, "", NonStr}, MaxParents)
    IN
    {NoPayload}
      \cup {[is_dict |-> TRUE, name_is_dict |-> nd, name |-> IF nd THEN nm ELSE << >>,
             parents_is_list |-> pl, parents |-> IF pl THEN ps ELSE << >>] :
               nd \in BOOLEAN, nm \in NameDicts, pl \in BOOLEAN, ps \in StoredParents}

\* get_label(category_id, prefer_lang=...)
CallGetLabel(cid, lang) ==
    /\ fcall.fn = "lookup"
    /\ fcall' = [fn |-> "get_label", idx |-> fcall.idx, cid |-> cid, prefer_lang |-> lang]
    /\ fresult' = [fn |-> "get_label", value |-> get_label(fcall.idx, cid, lang)]
    /\ UNCHANGED <<flocals, pipeVars, botVars, webVars, idxVars>>

\* get_parent_ids(category_id)
CallGetParentIds(cid) ==
    /\ fcall.fn = "lookup"
    /\ fcall' = [fn |-> "get_parent_ids", idx |-> fcall.idx, cid |-> cid]
    /\ fresult' = [fn |-> "get_parent_ids", value |-> get_parent_ids(fcall.idx, cid)]
    /\ UNCHANGED <<flocals, pipeVars, botVars, webVars, idxVars>>

InitLookup ==
    /\ RestIdle
    /\ \E p \in LookupPayloads :
          fcall = [fn |-> "lookup",
                   idx |-> TaxonomyIndex([order |-> <<LookupNode>>,
                                          payload |-> [n \in {LookupNode} |-> p]])]
    /\ flocals = [pc |-> "none"]
    /\ fresult = [fn |-> "none"]

NextLookup ==
    \/ \E cid \in {LookupNode, UnknownId}, lang \in {Null, "", "en", "ru", "fr"} :
          CallGetLabel(cid, lang)
    \/ \E cid \in {LookupNode, UnknownId} : CallGetParentIds(cid)

SpecLookup == InitLookup /\ [][NextLookup]_vars

\* the node of the call as the definition source stores it
StoredNode == fcall.idx.tax.payload[LookupNode]
\* the labels the node has in a language: stored strings that are not blank,
\* read without their surrounding blanks
LabelsIn(langs) ==
    IF ~StoredNode.is_dict \/ ~StoredNode.name_is_dict THEN {}
    ELSE {Strip(StoredNode.name[i][2]) :
            i \in {j \in 1..Len(StoredNode.name) :
                     /\ StoredNode.name[j][1] \in langs
                     /\ StoredNode.name[j][2] # NonStr
                     /\ Strip(StoredNode.name[j][2]) # ""}}

\* C12: get_label returns the node's label in prefer_lang if it has one, else
\* its English label if it has one, else one of the labels it has, else the
\* id; for an id that is not in the index it returns the id.  A label is a
\* stored string that is not blank, without its surrounding blanks.
C12_LabelFallbackChain ==
    fresult.fn = "get_label" =>
        LET r == fresult.value
            lang == fcall.prefer_lang
            all == LabelsIn({"en", "ru", "fr"})
        IN  IF fcall.cid # LookupNode THEN r = fcall.cid
            ELSE IF lang \notin {Null, ""} /\ LabelsIn({lang}) # {} THEN LabelsIn({lang}) = {r}
            ELSE IF LabelsIn({"en"}) # {} THEN LabelsIn({"en"}) = {r}
            ELSE IF all # {} THEN r \in all
            ELSE r = fcall.cid

\* the node has a label in another language first and an English label, none
\* in prefer_lang: the English label was returned
C12_Witness ==
    /\ fresult.fn = "get_label"
    /\ fcall.cid = LookupNode
    /\ fcall.prefer_lang = "fr"
    /\ LabelsIn({"fr"}) = {}
    /\ LabelsIn({"ru"}) = {"supy"}
    /\ LabelsIn({"en"}) = {"soup"}
    /\ StoredNode.name[1][1] = "ru"
    /\ fresult.value = "soup"

\* the stored entries that are non-empty strings, in stored order
RECURSIVE StringIds(_)
StringIds(stored) ==
    IF stored = << >> THEN << >>
    ELSE IF Head(stored) = "" \/ Head(stored) = NonStr THEN StringIds(Tail(stored))
    ELSE <<Head(stored)>> \o StringIds(Tail(stored))

\* C13 as stated: get_parent_ids returns the stored parent list of the node
\* as it is, same entries in the same order.
C13_ParentsAsStored ==
    (/\ fresult.fn = "get_parent_ids"
     /\ fcall.cid = LookupNode
     /\ StoredNode.is_dict /\ StoredNode.parents_is_list)
        => fresult.value = StoredNode.parents

\* C13 amended: get_parent_ids returns the stored entries that are non-empty
\* strings, in stored order and nothing else; the empty list when the node
\* stores no list or the id is not in the index.
C13_ParentsFiltered ==
    fresult.fn = "get_parent_ids" =>
        IF fcall.cid = LookupNode /\ StoredNode.is_dict /\ StoredNode.parents_is_list
        THEN fresult.value = StringIds(StoredNode.parents)
        ELSE fresult.value = << >>

\* a stored list with an entry that is not a non-empty string: the result is
\* shorter than the stored list
C13_Witness ==
    /\ fresult.fn = "get_parent_ids"
    /\ fcall.cid = LookupNode
    /\ StoredNode.is_dict /\ StoredNode.parents_is_list
    /\ Len(StoredNode.parents) = 2
    /\ fresult.value = <<"en:food">>

----------------------------------------------------------------------------
(* taxonomy_index.py: search on an index of four nodes.  "en:soups" and      *)
(* "en:sauce" carry a drawn number of language labels (up to 10 and 8         *)
(* searchable texts with the id token), "en:milk" and its child "en:kefir"   *)
(* one text each.                                                            *)

SoupLabels ==
    << <<"en", "soup">>, <<"fr", "soupe">>, <<"es", "sopa">>, <<"it", "zuppa">>,
       <<"de", "suppe">>, <<"nl", "soep">>, <<"pl", "zupa">>, <<"tr", "sup">>,
       <<"sv", "soppa">> >>
SauceLabels ==
    << <<"en", "sauce">>, <<"es", "salsa">>, <<"pl", "sos">>, <<"nl", "saus">>,
       <<"it", "sugo">>, <<"de", "sosse">>, <<"ru", "sous">>, <<"pt", "molho">> >>

\* the loaded dict with the first na and nb labels of the two nodes
SearchTax(na, nb) ==
    LET node(name, parents) ==
            [is_dict |-> TRUE, name_is_dict |-> TRUE, name |-> name,
             parents_is_list |-> TRUE, parents |-> parents]
    IN  [order |-> <<"en:soups", "en:sauce", "en:milk", "en:kefir">>,
         payload |-> [n \in {"en:soups", "en:sauce", "en:milk", "en:kefir"} |->
                        CASE n = "en:soups" -> node(Take(SoupLabels, na), << >>)
                          [] n = "en:sauce" -> node(Take(SauceLabels, nb), << >>)
                          [] n = "en:milk"  -> node(<< <<"en", "milk">> >>, << >>)
                          [] n = "en:kefir" -> node(<< <<"en", "kefir">> >>, <<"en:milk">>)]]

\* search(query, limit=...)
CallSearch(query, limit) ==
    /\ fcall.fn = "index"
    /\ fcall' = [fn |-> "search", idx |-> fcall.idx, query |-> query, limit |-> limit]
    /\ fresult' = [fn |-> "search", value |-> search(fcall.idx, query, limit)]
    /\ UNCHANGED <<flocals, pipeVars, botVars, webVars, idxVars>>

InitSearch ==
    /\ RestIdle
    /\ \E na \in 0..Len(SoupLabels), nb \in 0..Len(SauceLabels) :
          fcall = [fn |-> "index", idx |-> TaxonomyIndex(SearchTax(na, nb))]
    /\ flocals = [pc |-> "none"]
    /\ fresult = [fn |-> "none"]

NextSearch == \E query \in {"soup", "  "}, limit \in 0..MaxLimit : CallSearch(query, limit)

SpecSearch == InitSearch /\ [][NextSearch]_vars

\* the score of a node: the best similarity of the query over every label of
\* every language and the id token
NodeScore(tax, q, n) ==
    LET scores == {WRatio(q, v) : v \in NodeNames(tax, n) \ {""}}
    IN  IF scores = {} THEN 0 ELSE CHOOSE x \in scores : \A y \in scores : y <= x
\* (score, level) of a ranks strictly above (score, level) of b
RanksAbove(a, b) == a.score > b.score \/ (a.score = b.score /\ a.level > b.level)

\* C14: for a query that is not blank and limit > 0, search returns the first
\* limit nodes of the whole index in (score descending, level descending)
\* order, the score of a node being its best similarity over all its
\* searchable texts: no node twice, min(limit, number of nodes) results, each
\* with the node's score and level, in rank order, and no node left out
\* ranks above a returned one.
C14_SearchTopNodes ==
    (fresult.fn = "search" /\ Strip(fcall.query) # "" /\ fcall.limit > 0) =>
        LET r == fresult.value
            tax == fcall.idx.tax
            nodes == Range(tax.order)
            entry(n) == [score |-> NodeScore(tax, Strip(fcall.query), n),
                         level |-> MinHops(tax, n)]
            ids == {r[i].category_id : i \in 1..Len(r)}
        IN  /\ Len(r) = Min2(fcall.limit, Cardinality(nodes))
            /\ \A i, j \in 1..Len(r) : i # j => r[i].category_id # r[j].category_id
            /\ \A i \in 1..Len(r) :
                  /\ r[i].category_id \in nodes
                  /\ r[i].score = entry(r[i].category_id).score
                  /\ r[i].level = entry(r[i].category_id).level
            /\ \A i, j \in 1..Len(r) : i < j => ~RanksAbove(r[j], r[i])
            /\ \A n \in nodes \ ids : \A i \in 1..Len(r) : ~RanksAbove(entry(n), r[i])

----------------------------------------------------------------------------
(* taxonomy_index.py: diversify_by_level, statement by statement, on every   *)
(* candidate list of up to MaxCands candidates (two scores, two levels),     *)
(* limit 0..MaxLimit, max_per_level 0..MaxCap and both settings of the two   *)
(* flags.  The function runs to its end once called.                         *)

CandidateLists ==
    {[i \in 1..n |-> [category_id |-> NodeUniverse[i], score |-> sl[i][1], level |-> sl[i][2]]] :
        n \in 0..MaxCands, sl \in [1..MaxCands -> {70, 90} \X {0, 2}]}

\* lines 217-243: the early return, or the locals before the loop
DivStart ==
    /\ fcall.fn = "diversify_by_level"
    /\ flocals.pc = "start"
    /\ IF fcall.limit <= 0 \/ fcall.candidates = << >>
       THEN /\ flocals' = [pc |-> "done"]
            /\ fresult' = [fn |-> "diversify_by_level", value |-> << >>]
       ELSE /\ flocals' = [pc |-> "while", i |-> 0,
                           st |-> DiversifySetup(fcall.candidates, fcall.prefer_broader,
                                                 fcall.always_include_best)]
            /\ UNCHANGED fresult
    /\ UNCHANGED <<fcall, pipeVars, botVars, webVars, idxVars>>

\* lines 244-245: while progressed and len(picked) < limit
DivWhile ==
    /\ fcall.fn = "diversify_by_level"
    /\ flocals.pc = "while"
    /\ IF flocals.st.progressed /\ Len(flocals.st.picked) < fcall.limit
       THEN flocals' = [flocals EXCEPT !.pc = "for", !.i = 1, !.st.progressed = FALSE]
       ELSE flocals' = [flocals EXCEPT !.pc = "return"]
    /\ UNCHANGED <<fcall, fresult, pipeVars, botVars, webVars, idxVars>>

\* lines 246-256: one turn of "for lvl in levels"
DivFor ==
    /\ fcall.fn = "diversify_by_level"
    /\ flocals.pc = "for"
    /\ IF flocals.i > Len(flocals.st.levels) \/ Len(flocals.st.picked) >= fcall.limit
       THEN flocals' = [flocals EXCEPT !.pc = "while"]
       ELSE flocals' = [flocals EXCEPT !.i = @ + 1,
                                       !.st = ForLevel(@, flocals.st.levels[flocals.i],
                                                       fcall.max_per_level)]
    /\ UNCHANGED <<fcall, fresult, pipeVars, botVars, webVars, idxVars>>

\* line 258: return picked[:limit]
DivReturn ==
    /\ fcall.fn = "diversify_by_level"
    /\ flocals.pc = "return"
    /\ flocals' = [flocals EXCEPT !.pc = "done"]
    /\ fresult' = [fn |-> "diversify_by_level", value |-> Take(flocals.st.picked, fcall.limit)]
    /\ UNCHANGED <<fcall, pipeVars, botVars, webVars, idxVars>>

InitDiversify ==
    /\ RestIdle
    /\ \E cs \in CandidateLists, limit \in 0..MaxLimit, cap \in 0..MaxCap, pb, aib \in BOOLEAN :
          fcall = [fn |-> "diversify_by_level", candidates |-> cs, limit |-> limit,
                   max_per_level |-> cap, prefer_broader |-> pb, always_include_best |-> aib]
    /\ flocals = [pc |-> "start"]
    /\ fresult = [fn |-> "none"]

NextDiversify == DivStart \/ DivWhile \/ DivFor \/ DivReturn

SpecDiversify == InitDiversify /\ [][NextDiversify]_vars /\ WF_vars(NextDiversify)

DivResult == fresult.value
DivDone == fresult.fn = "diversify_by_level"

\* C15: with always_include_best and limit >= 1 on a non-empty list, the
\* result holds a candidate whose score no candidate exceeds, and it never
\* holds more than limit candidates; the stepwise run returns what the
\* function computes in one piece.
C15_BestKeptWithinLimit ==
    DivDone =>
        /\ Len(DivResult) <= Max2(fcall.limit, 0)
        /\ DivResult = diversify_by_level(fcall.candidates, fcall.limit, fcall.max_per_level,
                                          fcall.prefer_broader, fcall.always_include_best)
        /\ (fcall.always_include_best /\ fcall.limit >= 1 /\ fcall.candidates # << >>) =>
              \E i \in 1..Len(DivResult) :
                  \A j \in 1..Len(fcall.candidates) :
                      fcall.candidates[j].score <= DivResult[i].score

\* limit 1, broader levels first, and the best candidate is not on the
\* broadest level: the result is the best candidate
C15_Witness ==
    /\ DivDone
    /\ fcall.always_include_best /\ fcall.prefer_broader /\ fcall.limit = 1
    /\ Len(DivResult) = 1
    /\ DivResult[1].score = 90 /\ DivResult[1].level = 2
    /\ \E j \in 1..Len(fcall.candidates) :
          fcall.candidates[j].score = 70 /\ fcall.candidates[j].level = 0

\* C16: no level contributes more than max_per_level candidates to the
\* result, whatever the input and the setting of always_include_best.
C16_LevelCap ==
    DivDone =>
        \A l \in {0, 1, 2} :
            Cardinality({i \in 1..Len(DivResult) : DivResult[i].level = l}) <= fcall.max_per_level

\* the picks of the rounds: the result after the forced best
RoundPicks == IF fcall.always_include_best THEN Tail(DivResult) ELSE DivResult
\* the round of the k-th pick: one more than the earlier picks of its level
RoundOf(k) ==
    1 + Cardinality({j \in 1..(k - 1) : RoundPicks[j].level = RoundPicks[k].level})
\* the place of a level in the visiting order
VisitRank(l) == IF fcall.prefer_broader THEN l ELSE 0 - l
\* the candidates of a level that the rounds can pick
PoolOf(l) ==
    {j \in 1..Len(fcall.candidates) :
        /\ fcall.candidates[j].level = l
        /\ ~(fcall.always_include_best /\ fcall.candidates[j] = DivResult[1])}
RoundCount(l) == Cardinality({k \in 1..Len(RoundPicks) : RoundPicks[k].level = l})
\* what a level has given once r rounds have passed over it
DueAfter(l, r) == Min2(Min2(r, Max2(fcall.max_per_level, 0)), Cardinality(PoolOf(l)))

\* C17: after the forced best the result is filled in rounds.  The picks
\* come round after round and, within a round, in ascending level order when
\* prefer_broader and descending otherwise; a round takes the best remaining
\* candidate of every level that has one and is under its cap (only the
\* last round can be cut by the limit); no candidate is picked while a
\* higher-scoring one of its level is left out; the pick counts of two
\* levels that are neither exhausted nor capped differ by at most one.
C17_RoundRobin ==
    (DivDone /\ DivResult # << >>) =>
        LET p == RoundPicks
            inResult == {DivResult[i].category_id : i \in 1..Len(DivResult)}
            open == {l \in {0, 1, 2} : /\ RoundCount(l) < Cardinality(PoolOf(l))
                                       /\ RoundCount(l) < fcall.max_per_level}
        IN  /\ \A j, k \in 1..Len(p) :
                  j < k => \/ RoundOf(j) < RoundOf(k)
                           \/ /\ RoundOf(j) = RoundOf(k)
                              /\ VisitRank(p[j].level) < VisitRank(p[k].level)
            /\ \A k \in 1..Len(p) : \A l \in {0, 1, 2} :
                  IF VisitRank(l) < VisitRank(p[k].level)
                  THEN RoundCount(l) >= DueAfter(l, RoundOf(k))
                  ELSE RoundCount(l) >= DueAfter(l, RoundOf(k) - 1)
            /\ \A i \in 1..Len(DivResult) : \A j \in 1..Len(fcall.candidates) :
                  (/\ fcall.candidates[j].category_id \notin inResult
                   /\ fcall.candidates[j].level = DivResult[i].level)
                      => fcall.candidates[j].score <= DivResult[i].score
            /\ \A j, k \in 1..Len(p) :
                  (j < k /\ p[j].level = p[k].level) => p[j].score >= p[k].score
            /\ \A l1, l2 \in open : RoundCount(l1) - RoundCount(l2) <= 1

\* narrower levels first: after the forced best, a round over levels 2 and 0
C17_Witness ==
    /\ DivDone
    /\ fcall.always_include_best /\ ~fcall.prefer_broader
    /\ Len(DivResult) = 3
    /\ DivResult[2].level = 2
    /\ DivResult[3].level = 0

\* the loop has ended: the limit is reached, or every level is exhausted or
\* capped
LoopExit ==
    (flocals.pc \in {"return", "done"} /\ "st" \in DOMAIN flocals) =>
        \/ Len(flocals.st.picked) >= fcall.limit
        \/ \A l \in DOMAIN flocals.st.pools :
              flocals.st.pools[l] = << >> \/ flocals.st.counts[l] >= fcall.max_per_level

\* C18: diversify_by_level returns on every input, limit <= 0,
\* max_per_level <= 0 and the empty list included, and its loop is left only
\* when the limit is reached or every level is exhausted or capped.
C18_Terminates == []LoopExit /\ <>DivDone

\* the loop was left below the limit with a level that is capped but not
\* exhausted
C18_Witness ==
    /\ flocals.pc = "done"
    /\ "st" \in DOMAIN flocals
    /\ Len(flocals.st.picked) < fcall.limit
    /\ fcall.max_per_level >= 1
    /\ \E l \in DOMAIN flocals.st.pools :
          flocals.st.pools[l] # << >> /\ flocals.st.counts[l] >= fcall.max_per_level

----------------------------------------------------------------------------
(* meal_taxonomy.py: extract_items on every "items" list of up to            *)
(* MaxRawItems entries of a response object: entries of the same name in     *)
(* another case, type or confidence, entries without a name, entries that   *)
(* are not objects, and entries whose type is no string.                     *)

ExtractEntries ==
    RawEntries
      \cup {[RawSoup EXCEPT !.normalized_ru = "Soup", !.confidence = Num(40)],
            [RawSoup EXCEPT !.type = "Dish", !.confidence = Num(150)],
            [RawSoup EXCEPT !.type = "drink", !.confidence = Invalid],
            [RawSoup EXCEPT !.normalized_ru = Null, !.confidence = Num(70)],
            [RawSoup EXCEPT !.normalized_ru = "  ", !.text_span = Null],
            [RawSoup EXCEPT !.type = Null],
            [RawSoup EXCEPT !.is_dict = FALSE]}

\* extract_items after chat_json returned a JSON object with these "items"
CallExtractItems ==
    /\ fcall.fn = "chat_json"
    /\ fcall' = [fn |-> "extract_items", items |-> fcall.items]
    /\ fresult' = IF TypeRaises(fcall.items)
                  THEN [fn |-> "extract_items", raised |-> TRUE, value |-> << >>]
                  ELSE [fn |-> "extract_items", raised |-> FALSE,
                        value |-> ExtractItems(fcall.items)]
    /\ UNCHANGED <<flocals, pipeVars, botVars, webVars, idxVars>>

InitExtract ==
    /\ RestIdle
    /\ \E its \in SeqsUpTo(ExtractEntries, MaxRawItems) : fcall = [fn |-> "chat_json", items |-> its]
    /\ flocals = [pc |-> "none"]
    /\ fresult = [fn |-> "none"]

NextExtract == CallExtractItems

SpecExtract == InitExtract /\ [][NextExtract]_vars

\* the entries of the response that pass validation: an object whose type is
\* one of the four and that has a normalized name or a text span
ValidEntries ==
    {i \in 1..Len(fcall.items) :
        LET e == fcall.items[i]
        IN  /\ e.is_dict
            /\ e.type \notin {Null, NonStr}
            /\ Lower(Strip(e.type)) \in {"dish", "ingredient", "drink", "product"}
            /\ \/ (e.normalized_ru # Null /\ Strip(e.normalized_ru) # "")
               \/ (e.text_span # Null /\ Strip(e.text_span) # "")}
\* (item_type, case-insensitive normalized name) of a validated entry
EntryKey(i) ==
    LET e == fcall.items[i]
        name == IF e.normalized_ru # Null /\ Strip(e.normalized_ru) # ""
                THEN Strip(e.normalized_ru) ELSE Strip(e.text_span)
    IN  <<Lower(Strip(e.type)), Lower(name)>>
\* the confidence of an entry in percent: clamped to 0..100, 50 when unusable
EntryConfidence(i) ==
    LET c == fcall.items[i].confidence
    IN  IF c = Invalid THEN 50 ELSE IF c[1] < 0 THEN 0 ELSE IF c[1] > 100 THEN 100 ELSE c[1]

\* C19: the list extract_items returns has no two items of the same
\* (item_type, case-insensitive normalized name) key, and for every key among
\* the validated entries the returned item of that key carries the highest
\* confidence of the entries with the key.
C19_DedupKeepsHighest ==
    (fresult.fn = "extract_items" /\ ~fresult.raised) =>
        LET r == fresult.value
        IN  /\ \A i, j \in 1..Len(r) : i # j => ItemKey(r[i]) # ItemKey(r[j])
            /\ \A i \in ValidEntries :
                  \E k \in 1..Len(r) :
                      /\ ItemKey(r[k]) = EntryKey(i)
                      /\ r[k].confidence >= EntryConfidence(i)
            /\ \A k \in 1..Len(r) :
                  \E i \in ValidEntries :
                      ItemKey(r[k]) = EntryKey(i) /\ r[k].confidence = EntryConfidence(i)

\* two entries of one key, the second written in another case and with the
\* higher confidence: one item, with the higher confidence
C19_Witness ==
    /\ fresult.fn = "extract_items" /\ ~fresult.raised
    /\ Len(fcall.items) = 2
    /\ ValidEntries = {1, 2}
    /\ fcall.items[1].normalized_ru = "Soup" /\ fcall.items[2].normalized_ru = "soup"
    /\ EntryConfidence(1) < EntryConfidence(2)
    /\ Len(fresult.value) = 1
    /\ fresult.value[1].confidence = EntryConfidence(2)

\* C20: for every response object, entries whose type is not one of the four
\* (whatever value it holds) or that have neither name nor text span are
\* dropped without an error, and extract_items returns the other entries.
C20_DropIsNotAnError ==
    fresult.fn = "extract_items" =>
        /\ ~fresult.raised
        /\ {ItemKey(fresult.value[k]) : k \in 1..Len(fresult.value)}
              = {EntryKey(i) : i \in ValidEntries}

----------------------------------------------------------------------------
(* openai_client.py: one chat_json call of an OpenAIChat with a non-empty    *)
(* key (process_meal constructs no other) and max_retries -1..MaxRetries,    *)
(* attempt by attempt.  Every attempt ends in one of: a response whose       *)
(* content is a JSON object or array, a response whose content is not        *)
(* (malformed text, a JSON scalar), or an exception of the SDK.              *)

\* what one attempt can end in: the exception class name in lower case and
\* its status_code attribute (0: none)
AttemptOutcomes ==
    {[kind |-> "ok", cls |-> "", status |-> 0],
     [kind |-> "contract", cls |-> "openaiclienterror", status |-> 0],
     [kind |-> "transport", cls |-> "apitimeouterror", status |-> 0],
     [kind |-> "transport", cls |-> "ratelimiterror", status |-> 429],
     [kind |-> "transport", cls |-> "apiconnectionerror", status |-> 0],
     [kind |-> "transport", cls |-> "internalservererror", status |-> 500],
     [kind |-> "transport", cls |-> "apistatuserror", status |-> 503],
     [kind |-> "other", cls |-> "authenticationerror", status |-> 401],
     [kind |-> "other", cls |-> "badrequesterror", status |-> 400]}

\* every error is tried again
_is_retryable_Always(e) == TRUE

\* lines 63-78: the markers of lines 66-72 found in the class name, or one of
\* the status codes of line 76
_is_retryable(e) ==
    \/ e.cls \in {"apitimeouterror", "ratelimiterror", "apiconnectionerror", "internalservererror"}
    \/ e.status \in {408, 429, 500, 502, 503, 504}

\* one attempt more than range(max_retries + 1) has
LastAttempt_OneMore(attempt, max_retries) == attempt > max_retries

\* line 107: attempt >= self._max_retries
LastAttempt(attempt, max_retries) == attempt >= max_retries

\* lines 85-89: the key test and the first turn of the for loop
ChatStart ==
    /\ fcall.fn = "chat_json"
    /\ flocals.pc = "start"
    /\ flocals' = [flocals EXCEPT !.pc =
                      IF fcall.api_key = "" \/ fcall.max_retries + 1 <= 0 THEN "raise"
                      ELSE "attempt"]
    /\ UNCHANGED <<fcall, fresult, pipeVars, botVars, webVars, idxVars>>

\* lines 90-110: one request and what follows from its outcome
ChatAttempt(out) ==
    /\ fcall.fn = "chat_json"
    /\ flocals.pc = "attempt"
    /\ IF out.kind = "ok"
       THEN /\ flocals' = [flocals EXCEPT !.pc = "done", !.log = Append(@, out)]
            /\ fresult' = [fn |-> "chat_json", raised |-> FALSE, attempt |-> flocals.attempt]
       ELSE /\ flocals' = [flocals EXCEPT
                              !.log = Append(@, out),
                              !.pc = IF LastAttempt(flocals.attempt, fcall.max_retries) THEN "raise"
                                     ELSE IF ~_is_retryable(out) THEN "raise"
                                     ELSE "sleep"]
            /\ UNCHANGED fresult
    /\ UNCHANGED <<fcall, pipeVars, botVars, webVars, idxVars>>

\* lines 112-114 and 89: the sleep (at most 12 * 1.3 seconds) ends, next turn
ChatSleep ==
    /\ fcall.fn = "chat_json"
    /\ flocals.pc = "sleep"
    /\ flocals' = [flocals EXCEPT !.pc = "attempt", !.attempt = @ + 1]
    /\ UNCHANGED <<fcall, fresult, pipeVars, botVars, webVars, idxVars>>

\* lines 86 and 116: raise OpenAIClientError
ChatRaise ==
    /\ fcall.fn = "chat_json"
    /\ flocals.pc = "raise"
    /\ flocals' = [flocals EXCEPT !.pc = "done"]
    /\ fresult' = [fn |-> "chat_json", raised |-> TRUE, attempt |-> flocals.attempt]
    /\ UNCHANGED <<fcall, pipeVars, botVars, webVars, idxVars>>

InitChat ==
    /\ RestIdle
    /\ \E m \in (0 - 1)..MaxRetries :
          fcall = [fn |-> "chat_json", api_key |-> "sk-test", max_retries |-> m]
    /\ flocals = [pc |-> "start", attempt |-> 0, log |-> << >>]
    /\ fresult = [fn |-> "none"]

NextChat == ChatStart \/ (\E out \in AttemptOutcomes : ChatAttempt(out)) \/ ChatSleep \/ ChatRaise

SpecChat == InitChat /\ [][NextChat]_vars /\ WF_vars(NextChat)

ChatDone == fresult.fn = "chat_json"
\* the outcomes of the requests issued so far
Requests == flocals.log

\* C21: a request is followed by another one only when it ended in a
\* transport-class error (timeout, rate limit, connection failure, server
\* 5xx); a response that breaks the JSON contract is the last request of the
\* call, and the call ends by raising its error, whatever budget is left.
C21_OnlyTransportRetried ==
    fcall.fn = "chat_json" =>
        /\ \A i \in 1..(Len(Requests) - 1) : Requests[i].kind = "transport"
        /\ \A i \in 1..Len(Requests) :
              Requests[i].kind = "contract" =>
                  /\ i = Len(Requests)
                  /\ flocals.pc \in {"raise", "done"}
                  /\ ChatDone => fresult.raised

\* a transport error was tried again, then a contract error ended the call
\* with budget left
C21_Witness ==
    /\ ChatDone /\ fresult.raised
    /\ fcall.max_retries = 2
    /\ Len(Requests) = 2
    /\ Requests[1].kind = "transport"
    /\ Requests[2].kind = "contract"

\* the requests are within the budget and none follows a success; a finished
\* call returned after a success or raised after its last request
ChatBounded ==
    (fcall.fn = "chat_json" /\ fcall.max_retries >= 0) =>
        /\ Len(Requests) <= fcall.max_retries + 1
        /\ \A i \in 1..(Len(Requests) - 1) : Requests[i].kind # "ok"
        /\ ChatDone =>
              /\ Len(Requests) >= 1
              /\ fresult.raised <=> Requests[Len(Requests)].kind # "ok"

\* C22: with max_retries >= 0 a chat_json call issues at least one and at
\* most max_retries + 1 requests, none after the first success, and it always
\* ends: with the result of the successful request or by raising after the
\* last one.
C22_BoundedAttempts == []ChatBounded /\ <>ChatDone

\* the whole budget was used and the call raised
C22_Witness ==
    /\ ChatDone /\ fresult.raised
    /\ fcall.max_retries = 2
    /\ Len(Requests) = 3
    /\ \A i \in 1..3 : Requests[i].kind = "transport"

----------------------------------------------------------------------------
(* meal_taxonomy.py: candidate generation of link_item_top3 (lines 227-294)  *)
(* on every taxonomy of the three labelled nodes whose stored parent lists   *)
(* have up to MaxParents entries (nodes, themselves included, and an id that *)
(* is not a node), for an item named "soup" or "tea" and candidate_limit     *)
(* 1..MaxLimit.  The ancestor walk is taken one turn at a time.              *)

LinkTaxonomies ==
    LET ids == {SelectSeq(TaxOrder \o <<UnknownId>>, LAMBDA x : x \in S) :
                   S \in {T \in SUBSET (TaxIds \cup {UnknownId}) : Cardinality(T) <= MaxParents}}
    IN  {[order |-> TaxOrder,
          payload |-> [n \in TaxIds |->
                         [is_dict |-> TRUE, name_is_dict |-> TRUE, name |-> TaxName(n),
                          parents_is_list |-> TRUE, parents |-> ps[n]]]] :
            ps \in [TaxIds -> ids]}

\* "for c in list(candidates)": the walk of candidate i starts, or the loop
\* is over
WalkOf(idx, loc, i) ==
    IF i > Len(loc.candidates) THEN [loc EXCEPT !.pc = "finish", !.i = i]
    ELSE [loc EXCEPT !.pc = "walk", !.i = i, !.seen = {},
                     !.stack = get_parent_ids(idx, loc.candidates[i].category_id)]

\* lines 227-262: search, merge, first diversification, expanded = candidates
LinkStart ==
    /\ fcall.fn = "link_item_top3"
    /\ flocals.pc = "start"
    /\ LET raw == CandidatesRaw(fcall.idx, fcall.item, fcall.candidate_limit)
           first == FirstCandidates(fcall.idx, fcall.item, fcall.candidate_limit)
       IN  flocals' = WalkOf(fcall.idx,
                             [pc |-> "walk", raw |-> raw, candidates |-> first,
                              expanded |-> first, i |-> 1, stack |-> << >>, seen |-> {}],
                             1)
    /\ UNCHANGED <<fcall, fresult, pipeVars, botVars, webVars, idxVars>>

\* lines 265-284: one turn of "while stack"
WalkStep ==
    /\ fcall.fn = "link_item_top3"
    /\ flocals.pc = "walk"
    /\ flocals.stack # << >>
    /\ LET w == WalkPop(fcall.idx, flocals.candidates[flocals.i],
                        [stack |-> flocals.stack, seen |-> flocals.seen,
                         expanded |-> flocals.expanded])
       IN  flocals' = [flocals EXCEPT !.stack = w.stack, !.seen = w.seen,
                                      !.expanded = w.expanded]
    /\ UNCHANGED <<fcall, fresult, pipeVars, botVars, webVars, idxVars>>

\* lines 261-265: the stack is empty, on to the next candidate
WalkNext ==
    /\ fcall.fn = "link_item_top3"
    /\ flocals.pc = "walk"
    /\ flocals.stack = << >>
    /\ flocals' = WalkOf(fcall.idx, flocals, flocals.i + 1)
    /\ UNCHANGED <<fcall, fresult, pipeVars, botVars, webVars, idxVars>>

\* lines 286-294: sort and second diversification: the list that is presented
LinkFinish ==
    /\ fcall.fn = "link_item_top3"
    /\ flocals.pc = "finish"
    /\ flocals' = [flocals EXCEPT !.pc = "done"]
    /\ fresult' = [fn |-> "link_item_top3",
                   value |-> Presented(flocals.expanded, fcall.candidate_limit)]
    /\ UNCHANGED <<fcall, pipeVars, botVars, webVars, idxVars>>

InitLink ==
    /\ RestIdle
    /\ \E tax \in LinkTaxonomies, raw \in {RawSoup, RawTea, RawMilk}, limit \in 1..MaxLimit :
          fcall = [fn |-> "link_item_top3", idx |-> TaxonomyIndex(tax), item |-> MakeItem(raw),
                   candidate_limit |-> limit]
    /\ flocals = [pc |-> "start"]
    /\ fresult = [fn |-> "none"]

NextLink == LinkStart \/ WalkStep \/ WalkNext \/ LinkFinish

\* the loop of the walk runs on until its stack and its candidates are used up
SpecLink == InitLink /\ [][NextLink]_vars /\ WF_vars(WalkStep) /\ WF_vars(WalkNext)

LinkDone == fresult.fn = "link_item_top3"
\* the candidates the expansion added
Added == SubSeq(flocals.expanded, Len(flocals.candidates) + 1, Len(flocals.expanded))
\* the ids reached from id by one or more parent links, as get_parent_ids
\* gives them
RECURSIVE UpFrom(_, _, _)
UpFrom(idx, S, k) ==
    IF k = 0 THEN S
    ELSE UpFrom(idx, S \cup UNION {Range(get_parent_ids(idx, x)) : x \in S}, k - 1)
AncestorsOf(idx, id) ==
    UpFrom(idx, Range(get_parent_ids(idx, id)), Len(idx.tax.order) + 1)


\* C23: every ancestor the expansion added carries 0.85 times the score of a
\* directly-matched candidate whose parent chain holds it (rounded to an
\* integer), and that is strictly lower than the candidate's score; the
\* candidates that were already present keep their scores.
C23_AncestorsRankLower ==
    LinkDone =>
        /\ SubSeq(flocals.expanded, 1, Len(flocals.candidates)) = flocals.candidates
        /\ \A k \in 1..Len(Added) :
              \E i \in 1..Len(flocals.candidates) :
                  LET c == flocals.candidates[i]
                      d == 20 * Added[k].score - 17 * c.score
                  IN  /\ Added[k].category_id \in AncestorsOf(fcall.idx, c.category_id)
                      /\ d <= 10 /\ 0 - d <= 10
                      /\ Added[k].score < c.score

Walking == flocals.pc = "walk"
WalkEnded == flocals.pc \in {"finish", "done"}
\* the walks have ended: every node that parent links reach from a candidate
\* is in the expanded set
WalkComplete ==
    WalkEnded =>
        \A i \in 1..Len(flocals.candidates) :
            (AncestorsOf(fcall.idx, flocals.candidates[i].category_id)
                \cap Range(fcall.idx.tax.order))
              \subseteq {flocals.expanded[k].category_id : k \in 1..Len(flocals.expanded)}

\* C24: the ancestor walk ends for every parent graph, cycles included, and
\* then every node reachable from a candidate by parent links is in the
\* expanded candidate set.
C24_WalkTerminates == []WalkComplete /\ (Walking ~> WalkEnded)

\* two nodes that are each other's parent, one of them a candidate: the walk
\* ended and added the other
C24_Witness ==
    /\ LinkDone
    /\ Len(flocals.candidates) = 1
    /\ \E n \in TaxIds :
          /\ n # flocals.candidates[1].category_id
          /\ n \in Range(get_parent_ids(fcall.idx, flocals.candidates[1].category_id))
          /\ flocals.candidates[1].category_id \in Range(get_parent_ids(fcall.idx, n))
          /\ \E k \in 1..Len(Added) : Added[k].category_id = n

\* C25: the presented list has at most candidate_limit entries and, when the
\* search returned anything, it holds the best lexical match: a candidate of
\* the merged raw results with the highest score among them.
C25_BestMatchPresented ==
    LinkDone =>
        /\ Len(fresult.value) <= fcall.candidate_limit
        /\ flocals.raw # << >> =>
              \E p \in 1..Len(fresult.value) : \E i \in 1..Len(flocals.raw) :
                  /\ fresult.value[p].category_id = flocals.raw[i].category_id
                  /\ \A j \in 1..Len(flocals.raw) : flocals.raw[j].score <= flocals.raw[i].score

\* C29: every presented candidate id, the added ancestors included, is the id
\* of a node of the taxonomy.
C29_PresentedAreNodes ==
    LinkDone =>
        \A p \in 1..Len(fresult.value) : fresult.value[p].category_id \in Range(fcall.idx.tax.order)


----------------------------------------------------------------------------
(* The audit events and the stored rows of a process_meal call, under Spec  *)
(* (calls made one after another)                                           *)

EventTypes == {"meal_taxonomy_extracted", "meal_taxonomy_linked", "meal_taxonomy_failed"}
TerminalTypes == {"meal_taxonomy_linked", "meal_taxonomy_failed"}
\* the call passed the precondition test and is still running
Running(r) == run[r].pc \notin {"idle", "returned", "raised"}

\* C26: the step in which a call that passed the preconditions returns records
\* exactly one terminal event (linked or failed) with the meal id, and a
\* terminal event is recorded in no other step; the linked event is recorded
\* right after the extracted event of the same call, when the session of
\* persist_results has committed the rows of the call's results.
C26_OneTerminalEvent ==
    [][/\ Len(audit') >= Len(audit)
       /\ SubSeq(audit', 1, Len(audit)) = audit
       /\ LET new == SubSeq(audit', Len(audit) + 1, Len(audit'))
              terminal == {k \in 1..Len(new) : new[k].event_type \in TerminalTypes}
          IN  /\ \A r \in Slots :
                    (Running(r) /\ run'[r].pc = "returned") =>
                        /\ Len(new) = 1
                        /\ terminal = {1}
                        /\ new[1].meal_id = run[r].meal_id
              /\ terminal # {} => \E r \in Slots : Running(r) /\ run'[r].pc = "returned"
              /\ \A k \in terminal :
                    new[k].event_type = "meal_taxonomy_linked" =>
                        \E r \in Slots :
                            /\ Running(r) /\ run'[r].pc = "returned"
                            /\ audit # << >>
                            /\ audit[Len(audit)].event_type = "meal_taxonomy_extracted"
                            /\ audit[Len(audit)].meal_id = run[r].meal_id
                            /\ audit[Len(audit)].items = Len(run[r].items)
                            /\ ~run[r].tx.open
                            /\ ItemsOfMeal(db_items, run[r].meal_id)
                                   = ItemRows(run[r].call_no, run[r].meal_id, run[r].results)
                            /\ CatsOfMeal(db_items, db_cats, run[r].meal_id)
                                   = CatRows(run[r].call_no, run[r].results)]_vars

\* a call has returned its two results: extracted, then linked, are its events
C26_Witness ==
    /\ Succeeded(1) /\ Len(run[1].ret) = 2
    /\ Len(audit) >= 4
    /\ audit[Len(audit)].event_type = "meal_taxonomy_linked"
    /\ audit[Len(audit) - 1].event_type = "meal_taxonomy_extracted"

\* C27: before the extracted or the failed event of a call, an
\* extraction-started event with the meal id has been recorded.
C27_StartedEventFirst ==
    [][LET new == SubSeq(audit', Len(audit) + 1, Len(audit'))
       IN  \A k \in 1..Len(new) :
               new[k].event_type \in {"meal_taxonomy_extracted", "meal_taxonomy_failed"} =>
                   \E j \in 1..Len(audit) :
                       /\ audit[j].event_type \notin EventTypes
                       /\ audit[j].meal_id = new[k].meal_id]_vars

\* C27, amended: no extraction-started event is recorded; the first audit
\* event of a call that passed the preconditions is its extracted or its
\* failed event, with the meal id, and the call itself records nothing.
C27_FirstEventIsExtractedOrFailed ==
    [][/\ \A k \in 1..Len(audit) : audit[k].event_type \in EventTypes
       /\ calls' # calls => audit' = audit
       /\ \A r \in Slots :
             (run[r].pc = "extract" /\ run'[r] # run[r]) =>
                 /\ Len(audit') = Len(audit) + 1
                 /\ audit'[Len(audit')].event_type
                        \in {"meal_taxonomy_extracted", "meal_taxonomy_failed"}
                 /\ audit'[Len(audit')].meal_id = run[r].meal_id]_vars

\* the extraction of a call has succeeded: its extracted event is the third
\* audit row, after the two of the earlier call
C27_Witness ==
    /\ run[1].pc = "link"
    /\ Len(audit) = 3
    /\ audit[3].event_type = "meal_taxonomy_extracted"
    /\ audit[3].meal_id = run[1].meal_id

----------------------------------------------------------------------------
(* The dashboard login: POST /api/dashboard/create-code creates a login     *)
(* code, POST /auth/code-login consumes one.  Both are handled by the       *)
(* HTTPServer of main.py, whose serve_forever thread handles one request    *)
(* at a time.                                                               *)

LoginUsers == {"u1", "u2"}
\* _gen_code: the codes the random choice may give
Codes == {"AB2", "CD3"}
\* the code field of a login form: as stored, in another spelling, empty,
\* and a code that was never created
CodeInputs == {"AB2", " ab2 ", "CD3", "", "ZZ9"}
\* ttl_minutes, in readings of the clock
Ttl == 1

\* line 65: (code or "").strip().upper()
NormalizeCode(code) == Upper(Strip(code))

\* ThreadingHTTPServer: a request is handled while another is in progress
ServerFree_Threading == TRUE

\* main.py 360-361: HTTPServer.serve_forever handles one request at a time
ServerFree == \A q \in ReqIds : reqs[q].pc \in {"none", "done"}

\* dashboard_codes.py 32-57: a row with a code that no row has yet
CreateCode(user) ==
    /\ ServerFree
    /\ Cardinality(login_codes) < MaxCodes
    /\ \E code \in Codes :
          /\ \A r \in login_codes : r.code # code
          /\ login_codes' = login_codes \cup
                {[code |-> code, user_id |-> user, expires_at |-> clock + Ttl,
                  used |-> FALSE, used_at |-> 0]}
    /\ UNCHANGED <<reqs, clock, pipeVars, botVars, idxVars, pureVars>>

\* main.py 266-299, dashboard_codes.py 64-67: the request arrives; the rate
\* limiter may refuse it, and an empty code returns None at once
CodeLogin(q, raw, allowed) ==
    /\ reqs[q].pc = "none"
    /\ \A p \in ReqIds : p < q => reqs[p].pc # "none"
    /\ ServerFree
    /\ reqs' = [reqs EXCEPT ![q] =
                  IF ~allowed THEN [NoRequest EXCEPT !.pc = "done", !.raw = raw, !.status = 429]
                  ELSE IF NormalizeCode(raw) = ""
                       THEN [NoRequest EXCEPT !.pc = "done", !.raw = raw, !.status = 401]
                       ELSE [NoRequest EXCEPT !.pc = "select", !.raw = raw,
                                              !.normalized = NormalizeCode(raw),
                                              !.now = clock]]
    /\ UNCHANGED <<login_codes, clock, pipeVars, botVars, idxVars, pureVars>>

\* dashboard_codes.py 69-82: the select of an unused, unexpired row with the
\* code; without a row the call returns None (main.py 300-302: status 401)
ConsumeSelect(q) ==
    /\ reqs[q].pc = "select"
    /\ LET rows == {r \in login_codes : /\ r.code = reqs[q].normalized
                                        /\ ~r.used
                                        /\ r.expires_at >= reqs[q].now}
       IN  reqs' = [reqs EXCEPT ![q] =
                      IF rows = {} THEN [@ EXCEPT !.pc = "done", !.status = 401]
                      ELSE [@ EXCEPT !.pc = "flush",
                                     !.row = (CHOOSE r \in rows : TRUE).code]]
    /\ UNCHANGED <<login_codes, clock, pipeVars, botVars, idxVars, pureVars>>

\* dashboard_codes.py 83-85: row.used_at = now, flush: the UPDATE of the row
\* by its primary key; it waits while another session holds the row
ConsumeFlush(q) ==
    /\ reqs[q].pc = "flush"
    /\ \A p \in ReqIds \ {q} : ~(reqs[p].pc = "commit" /\ reqs[p].row = reqs[q].row)
    /\ reqs' = [reqs EXCEPT ![q] = [@ EXCEPT !.pc = "commit"]]
    /\ UNCHANGED <<login_codes, clock, pipeVars, botVars, idxVars, pureVars>>

\* dashboard_codes.py 86, get_session: the commit, return row.user_id
\* (main.py 304-311: the session cookie of that user, status 302)
ConsumeCommit(q) ==
    /\ reqs[q].pc = "commit"
    /\ LET old == CHOOSE r \in login_codes : r.code = reqs[q].row
       IN  /\ login_codes' = (login_codes \ {old}) \cup
                                {[old EXCEPT !.used = TRUE, !.used_at = reqs[q].now]}
           /\ reqs' = [reqs EXCEPT ![q] = [@ EXCEPT !.pc = "done", !.user_id = old.user_id,
                                                    !.status = 302]]
    /\ UNCHANGED <<clock, pipeVars, botVars, idxVars, pureVars>>

\* time passes
Tick ==
    /\ clock < MaxClock
    /\ clock' = clock + 1
    /\ UNCHANGED <<login_codes, reqs, pipeVars, botVars, idxVars, pureVars>>

InitLogin ==
    /\ RestIdle
    /\ NoCall

NextLogin ==
    \/ \E user \in LoginUsers : CreateCode(user)
    \/ \E q \in ReqIds, raw \in CodeInputs, allowed \in BOOLEAN : CodeLogin(q, raw, allowed)
    \/ \E q \in ReqIds : ConsumeSelect(q)
    \/ \E q \in ReqIds : ConsumeFlush(q)
    \/ \E q \in ReqIds : ConsumeCommit(q)
    \/ Tick

SpecLogin == InitLogin /\ [][NextLogin]_vars

\* the consume_login_code calls that have returned for the code of a row
ReturnedFor(code) == {q \in ReqIds : reqs[q].pc = "done" /\ NormalizeCode(reqs[q].raw) = code}

\* C28: of the consume_login_code calls made with the code of a row, in any
\* spelling, at most one has returned the user id, the id of the row's user;
\* every other has returned None.
C28_OneTimeCode ==
    \A r \in login_codes :
        /\ Cardinality({q \in ReturnedFor(r.code) : reqs[q].user_id # Null}) <= 1
        /\ \A q \in ReturnedFor(r.code) : reqs[q].user_id \in {Null, r.user_id}
        /\ (\E q \in ReturnedFor(r.code) : reqs[q].user_id # Null) => r.used

\* the same code sent twice in two spellings before it expired: the first
\* call returned the user id, the second None
C28_Witness ==
    /\ reqs[1].pc = "done" /\ reqs[2].pc = "done"
    /\ reqs[1].raw # reqs[2].raw
    /\ NormalizeCode(reqs[1].raw) = NormalizeCode(reqs[2].raw)
    /\ reqs[1].user_id # Null
    /\ reqs[2].user_id = Null /\ reqs[2].status = 401
    /\ \E r \in login_codes : r.code = reqs[2].normalized /\ r.expires_at >= reqs[2].now

====
